---------------------------- MODULE Spec2Model ----------------------------
(***************************************************************************)
(* Great Library: the local document cache (lib/cache.ts), the File Search *)
(* store resolver and remote sync (lib/file-search.ts), the batch upload   *)
(* (lib/upload.ts) and the ask flow (lib/ask.ts), as state machines.       *)
(*                                                                         *)
(* JavaScript values: `undefined` is the string Undefined; an array is a   *)
(* sequence; a Map is a sequence of entries in insertion order; a resource *)
(* name "a/b/c" is the sequence of its segments <<"a","b","c">>, so that   *)
(* split("/").pop() is the last element.                                   *)
(***************************************************************************)
EXTENDS Integers, Sequences, FiniteSets, TLC

VARIABLES
    blob,       \* the LocalStorage item under CACHE_KEY
    stores,     \* the remote service's File Search stores, in listing order
    now,        \* the wall clock (Date.now / new Date())
    cacheLog,   \* the last cache-level call: what it was given and returned
    res,        \* the running ensureFileSearchStore calls, one per caller
    up,         \* the running uploadFilesToLibrary call
    ask,        \* the ask chain: conversation, window and last call
    cite        \* extractCitations: its input and its result

vars == <<blob, stores, now, cacheLog, res, up, ask, cite>>

-----------------------------------------------------------------------------
(* Bounds of the model *)

MaxList == 2        \* longest document list handed to upsertDocuments
MaxStores == 2      \* stores the remote agrees to hold: a create beyond fails

-----------------------------------------------------------------------------
(* JavaScript helpers *)

Undefined == "undefined"

Last(s) == s[Len(s)]

Reverse(s) == [i \in 1..Len(s) |-> s[Len(s) + 1 - i]]

SeqsUpTo(S, n) == UNION {[1..k -> S] : k \in 0..n}

Range(s) == {s[i] : i \in 1..Len(s)}

\* Array.prototype.sort on V8 for arrays shorter than 64 elements: the leading
\* run is detected (and reversed when the comparator calls it descending), the
\* remaining elements are placed by binary insertion.  The comparator is the
\* one upsertDocuments passes.
compare(a, b) == IF a.uploadDate < b.uploadDate THEN 1 ELSE -1

RECURSIVE ExtendRun(_, _, _)
ExtendRun(s, idx, desc) ==
    IF idx > Len(s) THEN idx - 1
    ELSE LET order == compare(s[idx], s[idx - 1]) IN
         IF (desc /\ order >= 0) \/ (~desc /\ order < 0)
         THEN idx - 1
         ELSE ExtendRun(s, idx + 1, desc)

CountAndMakeRun(s) ==
    LET desc == compare(s[2], s[1]) < 0
        n    == ExtendRun(s, 3, desc)
    IN  [run |-> n,
         arr |-> IF desc
                 THEN [i \in 1..Len(s) |-> IF i <= n THEN s[n + 1 - i] ELSE s[i]]
                 ELSE s]

RECURSIVE BinarySearch(_, _, _, _)
BinarySearch(s, pivot, left, right) ==
    IF left >= right THEN left
    ELSE LET mid == left + ((right - left) \div 2) IN
         IF compare(pivot, s[mid]) < 0
         THEN BinarySearch(s, pivot, left, mid)
         ELSE BinarySearch(s, pivot, mid + 1, right)

RECURSIVE BinaryInsertionSort(_, _)
BinaryInsertionSort(s, start) ==
    IF start > Len(s) THEN s
    ELSE LET pivot == s[start]
             left  == BinarySearch(s, pivot, 1, start)
             moved == [i \in 1..Len(s) |->
                          IF i < left \/ i > start THEN s[i]
                          ELSE IF i = left THEN pivot
                          ELSE s[i - 1]]
         IN  BinaryInsertionSort(moved, start + 1)

ArraySort(s) ==
    IF Len(s) < 2 THEN s
    ELSE LET r == CountAndMakeRun(s) IN BinaryInsertionSort(r.arr, r.run + 1)

\* Map.set: an existing key keeps its place and takes the new value.
MapSet(m, doc) ==
    IF \E i \in 1..Len(m) : m[i].id = doc.id
    THEN [i \in 1..Len(m) |-> IF m[i].id = doc.id THEN doc ELSE m[i]]
    ELSE Append(m, doc)

RECURSIVE MapSetAll(_, _)
MapSetAll(m, docs) ==
    IF docs = <<>> THEN m ELSE MapSetAll(MapSet(m, Head(docs)), Tail(docs))

-----------------------------------------------------------------------------
(* lib/cache.ts *)

defaultState == [fileSearchStoreId |-> Undefined, documents |-> <<>>]

\* What LocalStorage can hold under the key: nothing, or a string, which is
\* the empty string, text that is not JSON, or JSON for null, for a scalar, or
\* for an object (whose documents field may not be an array).
NoItem       == [kind |-> "missing"]
EmptyText    == [kind |-> "empty"]
GarbageText  == [kind |-> "garbage"]
JsonNullText == [kind |-> "json", value |-> [type |-> "null"]]
JsonScalar   == [kind |-> "json", value |-> [type |-> "scalar"]]

\* JSON for an object: its fileSearchStoreId, and its documents when that
\* field holds an array.
JsonObject(id, docs) ==
    [kind |-> "json",
     value |-> [type |-> "object", fileSearchStoreId |-> id,
                documentsIsArray |-> TRUE, documents |-> docs]]

JsonObjectNoArray(id) ==
    [kind |-> "json",
     value |-> [type |-> "object", fileSearchStoreId |-> id,
                documentsIsArray |-> FALSE, documents |-> <<>>]]

JSONStringify(state) == JsonObject(state.fileSearchStoreId, state.documents)

\* JSON.parse: throws on text that is not JSON.
JSONParse(raw) ==
    IF raw.kind = "json"
    THEN [threw |-> FALSE, value |-> raw.value]
    ELSE [threw |-> TRUE, value |-> Undefined]

Returned(v) == [threw |-> FALSE, value |-> v]
Thrown == [threw |-> TRUE, value |-> Undefined]

readStateUnguarded(raw) ==
    IF raw.kind \in {"missing", "empty"}
    THEN Returned(defaultState)
    ELSE LET p == JSONParse(raw) IN
         IF p.threw \/ p.value.type = "null"
         THEN Thrown
         ELSE IF p.value.type = "scalar"
         THEN Returned(defaultState)
         ELSE Returned([fileSearchStoreId |-> p.value.fileSearchStoreId,
                        documents |-> IF p.value.documentsIsArray
                                      THEN p.value.documents
                                      ELSE <<>>])

readState(raw) ==
    IF raw.kind \in {"missing", "empty"}
    THEN Returned(defaultState)
    ELSE LET p == JSONParse(raw) IN
         IF p.threw \/ p.value.type = "null"
         THEN Returned(defaultState)          \* catch { return default }
         ELSE IF p.value.type = "scalar"
         THEN Returned(defaultState)          \* both fields read as undefined
         ELSE Returned([fileSearchStoreId |-> p.value.fileSearchStoreId,
                        documents |-> IF p.value.documentsIsArray
                                      THEN p.value.documents
                                      ELSE <<>>])

writeState(state) == JSONStringify(state)

getFileSearchStoreId(raw) ==
    LET r == readState(raw) IN
    IF r.threw THEN Thrown ELSE Returned(r.value.fileSearchStoreId)

getDocuments(raw) ==
    LET r == readState(raw) IN
    IF r.threw THEN Thrown ELSE Returned(r.value.documents)

\* A cache write, run to completion: [threw, value (what it returns), blob].
Wrote(v, b) == [threw |-> FALSE, value |-> v, blob |-> b]
WriteThrew(raw) == [threw |-> TRUE, value |-> Undefined, blob |-> raw]

setFileSearchStoreId(raw, id) ==
    LET r == readState(raw) IN
    IF r.threw THEN WriteThrew(raw)
    ELSE Wrote(Undefined, writeState([r.value EXCEPT !.fileSearchStoreId = id]))

mergeKeepingCached(cached, newDocs) ==
    cached \o newDocs

mergeById(cached, newDocs) ==
    MapSetAll(MapSetAll(<<>>, cached), newDocs)

upsertDocuments(raw, newDocs) ==
    LET d == getDocuments(raw) IN
    IF d.threw THEN WriteThrew(raw)
    ELSE LET nextList == ArraySort(mergeById(d.value, newDocs))
             r == readState(raw)
         IN  IF r.threw THEN WriteThrew(raw)
             ELSE Wrote(nextList, writeState([r.value EXCEPT !.documents = nextList]))

\* (for comparison) a replace that keeps what the cache held.
replaceDocumentsKeeping(raw, documents) ==
    LET r == readState(raw) IN
    IF r.threw THEN WriteThrew(raw)
    ELSE Wrote(Undefined,
               writeState([r.value EXCEPT !.documents = documents \o r.value.documents]))

\* (for comparison) a replace that writes the documents and nothing else.
replaceDocumentsAlone(raw, documents) ==
    LET r == readState(raw) IN
    IF r.threw THEN WriteThrew(raw)
    ELSE Wrote(Undefined, writeState([defaultState EXCEPT !.documents = documents]))

replaceDocuments(raw, documents) ==
    LET r == readState(raw) IN
    IF r.threw THEN WriteThrew(raw)
    ELSE Wrote(Undefined, writeState([r.value EXCEPT !.documents = documents]))

clearCache == writeState(defaultState)

-----------------------------------------------------------------------------
(* lib/preferences.ts, lib/file-search.ts: the store resolver *)

storeDisplayName == "Great Library"

\* Identifiers the remote hands out to the stores it creates, in order.
StoreIds == <<"s1", "s2", "s3", "s4", "s5", "s6", "s7", "s8">>

StoreName(id) == <<"fileSearchStores", id>>

RemoteStore(id, displayName) == [name |-> StoreName(id), displayName |-> displayName]

\* An optional value (a store that may be undefined) is a sequence of at most
\* one element; a store without a name has the empty name <<>>.
None == <<>>
Some(v) == <<v>>

\* parseStoreName(store, fallbackDisplayName) for a FileSearchStore object.
parseStoreName(store, fallbackDisplayName) ==
    [id |-> Last(store.name),
     name |-> store.name,
     displayName |-> IF store.displayName # Undefined
                     THEN store.displayName
                     ELSE fallbackDisplayName]

Truthy(s) == s # Undefined /\ s # ""

\* (for comparison) a match on the display name alone.
matchesDisplayNameOnly(store, targetDisplayName) ==
    store.displayName = targetDisplayName

\* The loop of findExistingStore over a listing that was fetched.
matchesDisplayName(store, targetDisplayName) ==
    ~Truthy(store.displayName) \/ store.displayName = targetDisplayName

RECURSIVE firstMatch(_, _)
firstMatch(listing, targetDisplayName) ==
    IF listing = <<>> THEN None
    ELSE LET store == Head(listing) IN
         IF store.name = <<>>
         THEN firstMatch(Tail(listing), targetDisplayName)
         ELSE IF matchesDisplayName(store, targetDisplayName)
         THEN Some(parseStoreName(store, Undefined))
         ELSE firstMatch(Tail(listing), targetDisplayName)

\* (for comparison) the stores found whether or not the listing went through.
findExistingStoreAnyway(listing, listOk, targetDisplayName) ==
    firstMatch(listing, targetDisplayName)

\* findExistingStore: a listing that fails is logged and reads as no store.
findExistingStore(listing, listOk, targetDisplayName) ==
    IF listOk THEN firstMatch(listing, targetDisplayName) ELSE None

\* fileSearchStores.get({name}) answers only for a store the remote holds,
\* and only when the call goes through.
remoteGet(sts, name, getOk) ==
    IF getOk /\ \E i \in 1..Len(sts) : sts[i].name = name
    THEN Some(sts[CHOOSE i \in 1..Len(sts) : sts[i].name = name])
    ELSE None

\* fileSearchStores.create({config: {displayName}}).
CreatedStore(sts) ==
    RemoteStore(StoreIds[Len(sts) + 1],
                IF Truthy(storeDisplayName) THEN storeDisplayName ELSE "Great Library")

\* (for comparison) the cached id returned as it is, for id and for name.
CachedStoreUnnamed(cachedId) ==
    [id |-> cachedId, name |-> <<cachedId>>, displayName |-> Undefined]

\* What the cached branch returns when the fetch fails.
CachedStore(cachedId) ==
    [id |-> cachedId, name |-> StoreName(cachedId), displayName |-> Undefined]

\* ensureFileSearchStore run to completion with no other flow in between:
\* [threw, store, blob, stores, listed, created].
ensureFileSearchStore(raw, sts, getOk, listOk, createOk) ==
    LET cachedId == getFileSearchStoreId(raw).value IN
    IF Truthy(cachedId)
    THEN LET got == remoteGet(sts, StoreName(cachedId), getOk) IN
         IF got # None
         THEN LET parsed == parseStoreName(got[1], Undefined) IN
              [threw |-> FALSE, store |-> Some(parsed),
               blob |-> setFileSearchStoreId(raw, parsed.id).blob,
               stores |-> sts, listed |-> FALSE, created |-> FALSE]
         ELSE [threw |-> FALSE, store |-> Some(CachedStore(cachedId)),
               blob |-> raw, stores |-> sts, listed |-> FALSE, created |-> FALSE]
    ELSE LET existingStore == findExistingStore(sts, listOk, storeDisplayName) IN
         IF existingStore # None
         THEN [threw |-> FALSE, store |-> existingStore,
               blob |-> setFileSearchStoreId(raw, existingStore[1].id).blob,
               stores |-> sts, listed |-> TRUE, created |-> FALSE]
         ELSE IF createOk
         THEN LET store == CreatedStore(sts)
                  parsed == parseStoreName(store, storeDisplayName)
              IN  [threw |-> FALSE, store |-> Some(parsed),
                   blob |-> setFileSearchStoreId(raw, parsed.id).blob,
                   stores |-> Append(sts, store), listed |-> TRUE, created |-> TRUE]
         ELSE [threw |-> TRUE, store |-> None, blob |-> raw,
               stores |-> sts, listed |-> TRUE, created |-> FALSE]

-----------------------------------------------------------------------------
(* lib/file-search.ts: the remote sync *)

DocIds == {"d1", "d2"}

DocumentName(storeId, docId) == <<"fileSearchStores", storeId, "documents", docId>>

\* Ids mapDocument makes up for a document without a name: `doc-${Date.now()}`.
FallbackIds == <<"doc-1", "doc-2", "doc-3", "doc-4", "doc-5", "doc-6", "doc-7", "doc-8">>

NoTime == 0

mapDocumentState(state) ==
    CASE state = "STATE_ACTIVE"  -> "indexed"
      [] state = "STATE_PENDING" -> "processing"
      [] state = "STATE_FAILED"  -> "error"
      [] OTHER                   -> "pending"

mapDocument(document, t) ==
    [id |-> IF document.name # <<>> /\ document.name # <<"">>
            THEN Last(document.name)
            ELSE FallbackIds[t],
     name |-> IF document.displayName # <<>> /\ document.displayName # <<"">>
              THEN document.displayName
              ELSE IF document.name # <<>> /\ document.name # <<"">>
              THEN document.name
              ELSE <<"Untitled Document">>,
     uploadDate |-> IF document.createTime # NoTime THEN document.createTime ELSE t,
     size |-> document.sizeBytes,
     status |-> mapDocumentState(document.state)]

\* fileSearchStores.documents.list({parent}): the documents the store holds,
\* each named under its parent.
listDocuments(parent, held) ==
    [i \in 1..Len(held) |->
        [name |-> parent \o <<"documents", held[i].doc>>,
         displayName |-> held[i].displayName,
         createTime |-> held[i].createTime,
         sizeBytes |-> held[i].sizeBytes,
         state |-> held[i].state]]

mapDocuments(listing, t) == [i \in 1..Len(listing) |-> mapDocument(listing[i], t)]

\* fetchDocumentsFromStore run to completion, e being how its
\* ensureFileSearchStore went and held what the store holds:
\* [threw, value, blob, stores].
fetchDocumentsFromStore(e, held, t, docsOk) ==
    IF e.threw \/ ~docsOk
    THEN [threw |-> TRUE, value |-> <<>>, blob |-> e.blob, stores |-> e.stores]
    ELSE LET documents == mapDocuments(listDocuments(e.store[1].name, held), t)
             w == replaceDocuments(e.blob, documents)
         IN
             [threw |-> w.threw, value |-> documents, blob |-> w.blob, stores |-> e.stores]

-----------------------------------------------------------------------------
(* The cache under calls made one at a time *)

\* uploadDate / createTime values, as instants on the clock.
Dates == {1, 2}

DocSize == 1024

\* The records callers hand to upsertDocuments.
DocUniverse ==
    [id : DocIds, name : {<<"a.pdf">>}, uploadDate : Dates,
     size : {DocSize}, status : {"indexed"}]

\* The documents a store can list: each has its resource name, and no two
\* documents of a listing share one.
RemoteDocs ==
    [doc : DocIds,
     displayName : {<<"a.pdf">>},
     createTime : Dates,
     sizeBytes : {DocSize},
     state : {"STATE_ACTIVE", "STATE_PENDING"}]

Holdings ==
    {l \in SeqsUpTo(RemoteDocs, MaxList) :
        \A i, j \in 1..Len(l) : i # j => l[i].doc # l[j].doc}

\* Blobs the extension did not write: no item, or text that does not hold a
\* cache state.
ForeignBlobs ==
    {NoItem, EmptyText, GarbageText, JsonNullText, JsonScalar,
     JsonObjectNoArray("s1")}

BlobKind(raw) == IF raw.kind = "json" THEN raw.value.type ELSE raw.kind

IdleRes == "idle"
IdleUp == "idle"
IdleAsk == "idle"
IdleCite == "idle"

Logged(op, raw, arg, threw, ret) ==
    [op |-> op, preKind |-> BlobKind(raw), arg |-> arg, threw |-> threw, ret |-> ret]

\* The ways the remote calls of one ensureFileSearchStore can go: each of
\* get, list and create goes through or fails, and a create fails for sure
\* once the remote holds all the stores it agrees to.
Outcomes(raw, sts) ==
    {ensureFileSearchStore(raw, sts, getOk, listOk, createOk) :
        getOk \in BOOLEAN, listOk \in BOOLEAN,
        createOk \in IF Len(sts) < MaxStores THEN BOOLEAN ELSE {FALSE}}

InitCache ==
    /\ blob \in ForeignBlobs
    /\ stores = <<>>
    /\ now = 1
    /\ cacheLog = Logged("none", blob, Undefined, FALSE, Undefined)
    /\ res = IdleRes
    /\ up = IdleUp
    /\ ask = IdleAsk
    /\ cite = IdleCite

CacheGetDocuments ==
    /\ LET r == getDocuments(blob) IN
       cacheLog' = Logged("getDocuments", blob, Undefined, r.threw, r.value)
    /\ UNCHANGED <<blob, stores, now, res, up, ask, cite>>

CacheGetStoreId ==
    /\ LET r == getFileSearchStoreId(blob) IN
       cacheLog' = Logged("getFileSearchStoreId", blob, Undefined, r.threw, r.value)
    /\ UNCHANGED <<blob, stores, now, res, up, ask, cite>>

CacheSetStoreId ==
    /\ \E id \in {"s1", "s2"} :
          LET w == setFileSearchStoreId(blob, id) IN
          /\ blob' = w.blob
          /\ cacheLog' = Logged("setFileSearchStoreId", blob, id, w.threw, w.value)
    /\ UNCHANGED <<stores, now, res, up, ask, cite>>

CacheUpsert ==
    /\ \E newDocs \in SeqsUpTo(DocUniverse, MaxList) :
          LET w == upsertDocuments(blob, newDocs) IN
          /\ blob' = w.blob
          /\ cacheLog' = Logged("upsertDocuments", blob, newDocs, w.threw, w.value)
    /\ UNCHANGED <<stores, now, res, up, ask, cite>>

CacheSync ==
    /\ \E e \in Outcomes(blob, stores) :
       \E docsOk \in BOOLEAN :
       \E held \in IF docsOk /\ ~e.threw THEN Holdings ELSE {<<>>} :
          LET f == fetchDocumentsFromStore(e, held, now, docsOk) IN
          /\ blob' = f.blob
          /\ stores' = f.stores
          /\ cacheLog' = Logged("fetchDocumentsFromStore", blob, held, f.threw, f.value)
    /\ UNCHANGED <<now, res, up, ask, cite>>

CacheClear ==
    /\ blob' = clearCache
    /\ cacheLog' = Logged("clearCache", blob, Undefined, FALSE, Undefined)
    /\ UNCHANGED <<stores, now, res, up, ask, cite>>

NextCache ==
    \/ CacheGetDocuments
    \/ CacheGetStoreId
    \/ CacheSetStoreId
    \/ CacheUpsert
    \/ CacheSync
    \/ CacheClear

SpecCache == InitCache /\ [][NextCache]_vars

\* The cache operations called one after another, replaceDocuments among
\* them, each run to completion before the next.
CacheReplace ==
    /\ \E documents \in SeqsUpTo(DocUniverse, MaxList) :
          LET w == replaceDocuments(blob, documents) IN
          /\ blob' = w.blob
          /\ cacheLog' = Logged("replaceDocuments", blob, documents, w.threw, w.value)
    /\ UNCHANGED <<stores, now, res, up, ask, cite>>

NextFrame ==
    \/ CacheGetDocuments
    \/ CacheGetStoreId
    \/ CacheSetStoreId
    \/ CacheUpsert
    \/ CacheReplace
    \/ CacheClear

SpecFrame == InitCache /\ [][NextFrame]_vars

\* C30: run one at a time, upsertDocuments and replaceDocuments leave the
\* cached store id (what getFileSearchStoreId returns) as it was,
\* setFileSearchStoreId leaves the cached documents (what getDocuments
\* returns) as they were, and getDocuments and getFileSearchStoreId leave
\* the stored item as it was.
C30_OwnFieldOnly ==
    /\ [][cacheLog'.op \in {"upsertDocuments", "replaceDocuments"}
            => getFileSearchStoreId(blob') = getFileSearchStoreId(blob)]_vars
    /\ [][cacheLog'.op = "setFileSearchStoreId"
            => getDocuments(blob') = getDocuments(blob)]_vars
    /\ [][cacheLog'.op \in {"getDocuments", "getFileSearchStoreId"}
            => blob' = blob]_vars

\* replaceDocuments has just put documents in place of others, the store
\* id set before is still there.
C30_Witness ==
    /\ cacheLog.op = "replaceDocuments"
    /\ ~cacheLog.threw
    /\ cacheLog.arg # <<>>
    /\ getDocuments(blob).value = cacheLog.arg
    /\ getFileSearchStoreId(blob).value = "s2"

\* C17: a sync that succeeds leaves in the cache exactly the documents the
\* remote listed, one per listed document and in listing order, whatever
\* the cache held; a sync that fails leaves the documents of the cache as
\* they were.
C17_SyncReplacesCache ==
    [][cacheLog'.op = "fetchDocumentsFromStore" /\ cacheLog' # cacheLog
         => IF cacheLog'.threw
            THEN getDocuments(blob') = getDocuments(blob)
            ELSE LET held == cacheLog'.arg
                     cached == getDocuments(blob')
                 IN  /\ ~cached.threw
                     /\ cached.value = cacheLog'.ret
                     /\ Len(cached.value) = Len(held)
                     /\ \A i \in 1..Len(held) :
                           /\ cached.value[i].id = held[i].doc
                           /\ cached.value[i].name = held[i].displayName
                           /\ cached.value[i].uploadDate = held[i].createTime
                           /\ cached.value[i].status = mapDocumentState(held[i].state)]_vars

\* A sync went through whose listing is in another order than the one
\* upsertDocuments keeps.
C17_Witness ==
    /\ cacheLog.op = "fetchDocumentsFromStore"
    /\ ~cacheLog.threw
    /\ Len(cacheLog.arg) = 2
    /\ cacheLog.arg[1].createTime < cacheLog.arg[2].createTime
    /\ getDocuments(blob).value = cacheLog.ret

NoDuplicateIds(docs) == \A i, j \in 1..Len(docs) : i # j => docs[i].id # docs[j].id

SortedDescending(docs) ==
    \A i, j \in 1..Len(docs) : i < j => docs[i].uploadDate >= docs[j].uploadDate

cachedDocuments == getDocuments(blob).value

LastWithId(newDocs, id) ==
    newDocs[CHOOSE i \in 1..Len(newDocs) :
               /\ newDocs[i].id = id
               /\ \A j \in (i + 1)..Len(newDocs) : newDocs[j].id # id]

\* C6: upserting a list twice leaves the cache that upserting it once leaves;
\* the result holds one record per id, the record of the list replacing the
\* cached one, ordered by uploadDate descending.  Stated of the upsert that
\* was just made: doing it again changes nothing.
C6_UpsertIdempotent ==
    cacheLog.op = "upsertDocuments" =>
        /\ upsertDocuments(blob, cacheLog.arg).blob = blob
        /\ NoDuplicateIds(cachedDocuments)
        /\ SortedDescending(cachedDocuments)
        /\ \A n \in Range(cacheLog.arg) :
              LastWithId(cacheLog.arg, n.id) \in Range(cachedDocuments)

\* What does hold of upsertDocuments: one record per id, the list's record
\* winning, uploadDate descending; and a second upsert changes nothing when
\* no two cached records share an uploadDate.
UpsertButForTies ==
    cacheLog.op = "upsertDocuments" =>
        /\ NoDuplicateIds(cachedDocuments)
        /\ SortedDescending(cachedDocuments)
        /\ \A n \in Range(cacheLog.arg) :
              LastWithId(cacheLog.arg, n.id) \in Range(cachedDocuments)
        /\ (\A i, j \in 1..Len(cachedDocuments) :
               i # j => cachedDocuments[i].uploadDate # cachedDocuments[j].uploadDate)
              => upsertDocuments(blob, cacheLog.arg).blob = blob

ForeignKinds == {"missing", "empty", "garbage", "null", "scalar"}

\* C10: a cache read never fails on the blob's content; on a missing or
\* malformed blob getDocuments returns the empty list and
\* getFileSearchStoreId returns no id, and a write that follows starts from
\* the empty default state.
C10_ReadNeverFails ==
    /\ cacheLog.op \in {"getDocuments", "getFileSearchStoreId",
                        "setFileSearchStoreId", "upsertDocuments"}
          => ~cacheLog.threw
    /\ cacheLog.preKind \in ForeignKinds =>
          /\ cacheLog.op = "getDocuments" => cacheLog.ret = <<>>
          /\ cacheLog.op = "getFileSearchStoreId" => cacheLog.ret = Undefined
          /\ cacheLog.op = "setFileSearchStoreId" =>
                blob = JsonObject(cacheLog.arg, <<>>)
          /\ cacheLog.op = "upsertDocuments" =>
                /\ blob = JsonObject(Undefined, cacheLog.ret)
                /\ Range(cacheLog.ret) \subseteq Range(cacheLog.arg)
                /\ {d.id : d \in Range(cacheLog.ret)}
                      = {d.id : d \in Range(cacheLog.arg)}

C10_Witness ==
    /\ cacheLog.preKind = "garbage"
    /\ cacheLog.op = "upsertDocuments"
    /\ Len(cacheLog.ret) = 2

-----------------------------------------------------------------------------
(* lib/cache.ts: two cache writers, one await at a time.  Each await of a  *)
(* writer is a point where the other may run.                              *)

Writers == {"w1", "w2"}

\* The call a writer makes.
WriteCalls ==
    {[op |-> "upsertDocuments", docs |-> <<d>>, id |-> Undefined] : d \in DocUniverse}
    \cup {[op |-> "replaceDocuments", docs |-> l, id |-> Undefined] :
            l \in SeqsUpTo(DocUniverse, 1)}
    \cup {[op |-> "setFileSearchStoreId", docs |-> <<>>, id |-> i] : i \in {"s1", "s2"}}

\* mutator(current): the state the writer hands to writeState.
mutator(call, nextList, current) ==
    CASE call.op = "upsertDocuments" -> [current EXCEPT !.documents = nextList]
      [] call.op = "replaceDocuments" -> [current EXCEPT !.documents = call.docs]
      [] OTHER -> [current EXCEPT !.fileSearchStoreId = call.id]

\* (for comparison) a write of the writer's own field over what the key
\* holds at the time of the write.
persistField(raw, call, next) ==
    IF call.op = "setFileSearchStoreId"
    THEN writeState([readState(raw).value EXCEPT !.fileSearchStoreId = next.fileSearchStoreId])
    ELSE writeState([readState(raw).value EXCEPT !.documents = next.documents])

\* await writeState(next): LocalStorage.setItem(CACHE_KEY, JSON.stringify(next)).
persist(raw, call, next) == writeState(next)

\* The same call with no other writer in between.
writtenAlone(raw, call) ==
    CASE call.op = "upsertDocuments" -> upsertDocuments(raw, call.docs).blob
      [] call.op = "replaceDocuments" -> replaceDocuments(raw, call.docs).blob
      [] OTHER -> setFileSearchStoreId(raw, call.id).blob

WriterIdle ==
    [pc |-> "idle", call |-> [op |-> "none", docs |-> <<>>, id |-> Undefined],
     nextList |-> <<>>, current |-> defaultState]

RaceBlobs ==
    {NoItem,
     JsonObject("s1", <<[id |-> "d1", name |-> <<"a.pdf">>, uploadDate |-> 1,
                         size |-> DocSize, status |-> "indexed"]>>)}

InitRace ==
    /\ blob \in RaceBlobs
    /\ stores = <<>>
    /\ now = 1
    /\ cacheLog = Logged("none", blob, Undefined, FALSE, Undefined)
    /\ res = [procs |-> [w \in Writers |-> WriterIdle], finished |-> <<>>,
              overlapped |-> FALSE, initial |-> blob]
    /\ up = IdleUp
    /\ ask = IdleAsk
    /\ cite = IdleCite

\* A writer is called: upsertDocuments goes to its getDocuments, the others
\* to the read of mutateState.
RaceCall(w) ==
    /\ res.procs[w].pc = "idle"
    /\ \E call \in WriteCalls :
          res' = [res EXCEPT
                    !.procs[w] = [@ EXCEPT !.call = call,
                                           !.pc = IF call.op = "upsertDocuments"
                                                  THEN "getDocuments" ELSE "read"],
                    !.overlapped = @ \/ \E v \in Writers :
                                           res.procs[v].pc \notin {"idle", "done"}]
    /\ UNCHANGED <<blob, stores, now, cacheLog, up, ask, cite>>

\* upsertDocuments: (await getDocuments()) merged with newDocs and sorted.
RaceGetDocuments(w) ==
    /\ res.procs[w].pc = "getDocuments"
    /\ res' = [res EXCEPT
                 !.procs[w] = [@ EXCEPT
                    !.nextList = ArraySort(mergeById(getDocuments(blob).value,
                                                     res.procs[w].call.docs)),
                    !.pc = "read"]]
    /\ UNCHANGED <<blob, stores, now, cacheLog, up, ask, cite>>

\* mutateState: const current = await readState().
RaceRead(w) ==
    /\ res.procs[w].pc = "read"
    /\ res' = [res EXCEPT !.procs[w] = [@ EXCEPT !.current = readState(blob).value,
                                                 !.pc = "write"]]
    /\ UNCHANGED <<blob, stores, now, cacheLog, up, ask, cite>>

\* mutateState: await writeState(mutator(current)); the writer returns.
RaceWrite(w) ==
    /\ res.procs[w].pc = "write"
    /\ LET p == res.procs[w]
           next == mutator(p.call, p.nextList, p.current)
       IN  /\ blob' = persist(blob, p.call, next)
           /\ res' = [res EXCEPT !.procs[w] = [@ EXCEPT !.pc = "done"],
                                 !.finished = Append(@, w)]
    /\ UNCHANGED <<stores, now, cacheLog, up, ask, cite>>

NextRace ==
    \E w \in Writers :
       \/ RaceCall(w)
       \/ RaceGetDocuments(w)
       \/ RaceRead(w)
       \/ RaceWrite(w)

SpecRace == InitRace /\ [][NextRace]_vars

\* The writer that wrote last.
LastWriter == res.procs[res.finished[Len(res.finished)]]

\* C25: whenever a writer has finished, the key holds exactly the state the
\* last writer made from its own earlier reads, written whole; when the two
\* writers did not overlap, the key holds what the two calls make of the
\* initial blob one after the other.
C25_LastWriterWins ==
    /\ res.finished # <<>>
         => blob = JSONStringify(mutator(LastWriter.call, LastWriter.nextList,
                                         LastWriter.current))
    /\ Len(res.finished) = 2 /\ ~res.overlapped
         => blob = writtenAlone(writtenAlone(res.initial, res.procs[res.finished[1]].call),
                                res.procs[res.finished[2]].call)

\* Two upserts of documents with different ids overlapped, and the cache
\* holds the document of one of them alone.
C25_Witness ==
    /\ Len(res.finished) = 2
    /\ res.overlapped
    /\ res.initial = NoItem
    /\ \A w \in Writers : res.procs[w].call.op = "upsertDocuments"
    /\ res.procs["w1"].call.docs[1].id # res.procs["w2"].call.docs[1].id
    /\ getDocuments(blob).value = res.procs[res.finished[2]].call.docs

-----------------------------------------------------------------------------
(* ensureFileSearchStore, step by step, called by several flows at once.  *)
(* Each await is a point where another caller may run.                     *)

Callers == {"ask", "upload"}

MaxCalls == 2       \* calls each caller makes

\* Stores the remote may hold before the extension first runs: the i-th has
\* the i-th identifier; a shape says what its listing entry carries.
ShapedStore(i, shape) ==
    [name |-> IF shape = "noname" THEN <<>> ELSE StoreName(StoreIds[i]),
     displayName |-> CASE shape = "match" -> storeDisplayName
                       [] shape = "other" -> "Other Library"
                       [] shape = "empty" -> ""
                       [] OTHER -> Undefined]

ShapedListing(shapes) == [i \in 1..Len(shapes) |-> ShapedStore(i, shapes[i])]

InitialListings ==
    {ShapedListing(shapes) :
        shapes \in {<<>>, <<"other">>, <<"nodisplay">>, <<"noname", "match">>,
                    <<"other", "match">>, <<"match", "nodisplay">>}}

ResIdle ==
    [pc |-> "idle", cachedId |-> Undefined, found |-> None,
     state |-> defaultState, calls |-> 0, returned |-> <<>>]

InitStore ==
    /\ blob = NoItem
    /\ stores \in InitialListings
    /\ now = 1
    /\ cacheLog = Logged("none", blob, Undefined, FALSE, Undefined)
    /\ res = [procs |-> [c \in Callers |-> ResIdle], created |-> 0,
              initial |-> Len(stores), overlapped |-> FALSE]
    /\ up = IdleUp
    /\ ask = IdleAsk
    /\ cite = IdleCite

Proc(c) == res.procs[c]

SetProc(c, p) == [res EXCEPT !.procs[c] = p]

ReturnStore(p, store) ==
    [p EXCEPT !.pc = "idle", !.found = None,
              !.returned = Append(@, [threw |-> FALSE, id |-> store.id, name |-> store.name])]

ThrowOut(p) ==
    [p EXCEPT !.pc = "idle", !.found = None,
              !.returned = Append(@, [threw |-> TRUE, id |-> Undefined, name |-> <<>>])]

ResCall(c) ==
    /\ Proc(c).pc = "idle"
    /\ Proc(c).calls < MaxCalls
    /\ res' = [SetProc(c, [Proc(c) EXCEPT !.pc = "getId", !.calls = @ + 1])
                  EXCEPT !.overlapped = @ \/ \E d \in Callers : Proc(d).pc # "idle"]
    /\ UNCHANGED <<blob, stores, now, cacheLog, up, ask, cite>>

\* const cachedId = await getFileSearchStoreId()
ResGetId(c) ==
    /\ Proc(c).pc = "getId"
    /\ LET cachedId == getFileSearchStoreId(blob).value IN
       res' = SetProc(c, [Proc(c) EXCEPT !.cachedId = cachedId,
                                         !.pc = IF Truthy(cachedId) THEN "get" ELSE "list"])
    /\ UNCHANGED <<blob, stores, now, cacheLog, up, ask, cite>>

\* await client.fileSearchStores.get({name}), or its catch
ResGet(c) ==
    /\ Proc(c).pc = "get"
    /\ \E getOk \in BOOLEAN :
          LET got == remoteGet(stores, StoreName(Proc(c).cachedId), getOk) IN
          IF got # None
          THEN res' = SetProc(c, [Proc(c) EXCEPT
                                     !.found = Some(parseStoreName(got[1], Undefined)),
                                     !.pc = "setRead"])
          ELSE res' = SetProc(c, ReturnStore(Proc(c), CachedStore(Proc(c).cachedId)))
    /\ UNCHANGED <<blob, stores, now, cacheLog, up, ask, cite>>

\* await findExistingStore(client, storeDisplayName)
ResList(c) ==
    /\ Proc(c).pc = "list"
    /\ \E listOk \in BOOLEAN :
          LET existingStore == findExistingStore(stores, listOk, storeDisplayName) IN
          res' = SetProc(c, [Proc(c) EXCEPT
                                !.found = existingStore,
                                !.pc = IF existingStore # None THEN "setRead" ELSE "toast"])
    /\ UNCHANGED <<blob, stores, now, cacheLog, up, ask, cite>>

\* await showToast(...)
ResToast(c) ==
    /\ Proc(c).pc = "toast"
    /\ res' = SetProc(c, [Proc(c) EXCEPT !.pc = "create"])
    /\ UNCHANGED <<blob, stores, now, cacheLog, up, ask, cite>>

\* await client.fileSearchStores.create(...), or its catch, which rethrows
ResCreate(c) ==
    /\ Proc(c).pc = "create"
    /\ \E createOk \in IF res.created < MaxStores THEN BOOLEAN ELSE {FALSE} :
          IF createOk
          THEN LET store == CreatedStore(stores) IN
               /\ stores' = Append(stores, store)
               /\ res' = [SetProc(c, [Proc(c) EXCEPT
                                         !.found = Some(parseStoreName(store, storeDisplayName)),
                                         !.pc = "setRead"])
                             EXCEPT !.created = @ + 1]
          ELSE /\ stores' = stores
               /\ res' = SetProc(c, ThrowOut(Proc(c)))
    /\ UNCHANGED <<blob, now, cacheLog, up, ask, cite>>

\* setFileSearchStoreId -> mutateState: const current = await readState()
ResSetRead(c) ==
    /\ Proc(c).pc = "setRead"
    /\ res' = SetProc(c, [Proc(c) EXCEPT !.state = readState(blob).value,
                                         !.pc = "setWrite"])
    /\ UNCHANGED <<blob, stores, now, cacheLog, up, ask, cite>>

\* mutateState: await writeState(mutator(current)); then the call returns
ResSetWrite(c) ==
    /\ Proc(c).pc = "setWrite"
    /\ LET store == Proc(c).found[1] IN
       /\ blob' = writeState([Proc(c).state EXCEPT !.fileSearchStoreId = store.id])
       /\ res' = SetProc(c, ReturnStore(Proc(c), store))
    /\ UNCHANGED <<stores, now, cacheLog, up, ask, cite>>

NextStore ==
    \E c \in Callers :
        \/ ResCall(c)
        \/ ResGetId(c)
        \/ ResGet(c)
        \/ ResList(c)
        \/ ResToast(c)
        \/ ResCreate(c)
        \/ ResSetRead(c)
        \/ ResSetWrite(c)

SpecStore == InitStore /\ [][NextStore]_vars

\* C4: starting from a remote with no store and an empty cache, after any
\* interleaving of ensureFileSearchStore calls at most one store has been
\* created and every call that returned, returned that same store.
C4_ExactlyOneStore ==
    res.initial = 0 =>
        /\ res.created <= 1
        /\ \A c1, c2 \in Callers :
           \A i \in 1..Len(Proc(c1).returned), j \in 1..Len(Proc(c2).returned) :
              (~Proc(c1).returned[i].threw /\ ~Proc(c2).returned[j].threw)
                 => Proc(c1).returned[i] = Proc(c2).returned[j]

SameStoreReturned ==
    /\ res.created <= 1
    /\ \A c1, c2 \in Callers :
       \A i \in 1..Len(Proc(c1).returned), j \in 1..Len(Proc(c2).returned) :
          (~Proc(c1).returned[i].threw /\ ~Proc(c2).returned[j].threw)
             => Proc(c1).returned[i].id = Proc(c2).returned[j].id

\* What does hold: with the calls made one at a time (none starting while
\* another is running) one store is created and returned by all.
OneStoreWhenOneAtATime ==
    (res.initial = 0 /\ ~res.overlapped) => SameStoreReturned

-----------------------------------------------------------------------------
(* ensureFileSearchStore, one call at a time, against the stores the      *)
(* remote may hold                                                         *)

StoreShapes == {"match", "other", "nodisplay", "empty", "noname"}

HeldStores == {ShapedListing(shapes) : shapes \in SeqsUpTo(StoreShapes, MaxStores)}

\* What one call of ensureFileSearchStore did: whether the cache had an id,
\* whether the listing went through, what it returned, whether it created.
Ensured(op, hadId, listOk, e) ==
    [op |-> op, hadId |-> hadId, listOk |-> listOk, threw |-> e.threw,
     store |-> e.store, listed |-> e.listed, created |-> e.created]

NotEnsured ==
    [op |-> "none", hadId |-> FALSE, listOk |-> FALSE, threw |-> FALSE,
     store |-> None, listed |-> FALSE, created |-> FALSE]

InitEnsure ==
    /\ blob = NoItem
    /\ stores \in HeldStores
    /\ now = 1
    /\ cacheLog = Logged("none", blob, Undefined, FALSE, Undefined)
    /\ res = NotEnsured
    /\ up = IdleUp
    /\ ask = IdleAsk
    /\ cite = IdleCite

EnsureCall ==
    /\ \E getOk \in BOOLEAN, listOk \in BOOLEAN :
       \E createOk \in IF Len(stores) <= MaxStores THEN BOOLEAN ELSE {FALSE} :
          LET e == ensureFileSearchStore(blob, stores, getOk, listOk, createOk) IN
          /\ blob' = e.blob
          /\ stores' = e.stores
          /\ res' = Ensured("ensureFileSearchStore",
                            Truthy(getFileSearchStoreId(blob).value), listOk, e)
    /\ UNCHANGED <<now, cacheLog, up, ask, cite>>

\* clearCache(): the cached id is gone, the remote keeps its stores.
EnsureAfterClear ==
    /\ blob' = clearCache
    /\ res' = [NotEnsured EXCEPT !.op = "clearCache"]
    /\ UNCHANGED <<stores, now, cacheLog, up, ask, cite>>

NextEnsure ==
    \/ EnsureCall
    \/ EnsureAfterClear

SpecEnsure == InitEnsure /\ [][NextEnsure]_vars

\* A listed store the resolver may reuse: it has a name, and its display
\* name is the configured one or is missing.
Reusable(store) ==
    /\ store.name # <<>>
    /\ store.displayName \in {storeDisplayName, Undefined, ""}

\* C18: a call of ensureFileSearchStore that finds no id in the cache and
\* whose listing goes through returns the first listed store that is
\* reusable, caches its id and creates nothing; it creates a store, under
\* the configured display name and with its id cached, only when no store
\* it listed is reusable (a listing that fails lists nothing).
C18_FirstReusableStore ==
    [][(res'.op = "ensureFileSearchStore" /\ ~Truthy(getFileSearchStoreId(blob).value))
         => LET listing == IF res'.listOk THEN stores ELSE <<>>
                reusable == {k \in 1..Len(listing) : Reusable(listing[k])}
            IN  /\ ~res'.hadId
                /\ reusable # {} =>
                     LET first == CHOOSE k \in reusable : \A j \in reusable : k <= j IN
                     /\ ~res'.threw
                     /\ res'.store[1].name = listing[first].name
                     /\ res'.store[1].id = Last(listing[first].name)
                     /\ getFileSearchStoreId(blob').value = res'.store[1].id
                     /\ ~res'.created
                     /\ stores' = stores
                /\ res'.created =>
                     /\ reusable = {}
                     /\ Len(stores') = Len(stores) + 1
                     /\ SubSeq(stores', 1, Len(stores)) = stores
                     /\ stores'[Len(stores')].displayName = storeDisplayName
                     /\ res'.store[1].name = stores'[Len(stores')].name
                     /\ getFileSearchStoreId(blob').value = res'.store[1].id
                /\ reusable = {} /\ ~res'.created => res'.threw /\ stores' = stores]_vars

\* The second listed store was returned, the first not being reusable.
C18_Witness ==
    /\ res.op = "ensureFileSearchStore"
    /\ ~res.hadId
    /\ res.listOk
    /\ ~res.created
    /\ Len(stores) = 2
    /\ ~Reusable(stores[1])
    /\ stores[2].displayName = Undefined
    /\ res.store = Some([id |-> Last(stores[2].name), name |-> stores[2].name,
                         displayName |-> Undefined])

\* C23: a call of ensureFileSearchStore that finds an id in the cache does
\* not list, does not create and does not throw; it returns that id with the
\* name fileSearchStores/<id>, with the display name of the store the remote
\* holds under that name when the fetch went through and with none when it
\* failed; the cached id is the same after the call.
C23_CachedIdReturned ==
    [][(res'.op = "ensureFileSearchStore" /\ Truthy(getFileSearchStoreId(blob).value))
         => LET cachedId == getFileSearchStoreId(blob).value
                held == {k \in 1..Len(stores) : stores[k].name = StoreName(cachedId)}
            IN  /\ res'.hadId
                /\ ~res'.threw
                /\ ~res'.listed
                /\ ~res'.created
                /\ stores' = stores
                /\ res'.store # None
                /\ res'.store[1].id = cachedId
                /\ res'.store[1].name = StoreName(cachedId)
                /\ \/ res'.store[1].displayName = Undefined
                   \/ \E k \in held : res'.store[1].displayName = stores[k].displayName
                /\ getFileSearchStoreId(blob').value = cachedId
                /\ getDocuments(blob') = getDocuments(blob)]_vars

\* A call with the id of the second store cached returned that store.
C23_Witness ==
    /\ res.op = "ensureFileSearchStore"
    /\ res.hadId
    /\ ~res.threw
    /\ Len(stores) = 2
    /\ res.store[1].name = stores[2].name
    /\ res.store[1].displayName = storeDisplayName
    /\ getFileSearchStoreId(blob).value = res.store[1].id

C24_CreateFailed ==
    /\ res.op = "ensureFileSearchStore"
    /\ ~res.listOk
    /\ res.threw
    /\ ~Truthy(getFileSearchStoreId(blob).value)

-----------------------------------------------------------------------------
(* lib/upload.ts: the batch upload, one await at a time *)

MAX_FILE_SIZE_BYTES == 100 * 1024 * 1024

MaxFiles == 2       \* longest file list handed to uploadFilesToLibrary
MaxPolls == 1       \* operations.get calls after which an upload is done

\* UploadableFile: its name and its size (path and mimeType are passed on
\* untouched).  Two files: one within the limit, one a byte over it.
UploadableFiles ==
    {[name |-> <<"a.pdf">>, size |-> DocSize],
     [name |-> <<"b.pdf">>, size |-> MAX_FILE_SIZE_BYTES + 1]}

\* findOversizedFile(files, maxSizeBytes): files.find(size > maxSizeBytes).
RECURSIVE findOversizedFile(_, _)
findOversizedFile(files, maxSizeBytes) ==
    IF files = <<>> THEN None
    ELSE IF Head(files).size > maxSizeBytes THEN Some(Head(files))
    ELSE findOversizedFile(Tail(files), maxSizeBytes)

\* parseDocumentId(documentName): split("/").pop(); the empty string splits
\* into one empty segment.
EmptyString == <<"">>

parseDocumentId(documentName) == Last(documentName)

\* An upload operation as the remote reports it: done or not, its name (<<>>
\* when it has none), the error payload it carries if any, and the document
\* name of its response (<<>> when it has none).
OperationName(storeName) == storeName \o <<"upload", "operations", "op1">>

\* The error payloads a failed operation can carry.
ErrorPayloads == {"quota exceeded", "unsupported file"}

\* (for comparison) the name of the operation not looked at.
missingNameIgnored(current) == FALSE

\* if (!current.name)
missingName(current) == current.name = <<>>

\* (for comparison) the error of a completed operation passed over.
operationPassed(current) == FALSE

\* if (current.error)
operationFailed(current) == current.error # None

\* new Error(`Upload failed: ${JSON.stringify(current.error)}`): the message
\* is the prefix followed by the payload's JSON text.
UploadFailed(payload) == <<"Upload failed: ", payload>>

Operation(done, name, error, documentName) ==
    [done |-> done, name |-> name, error |-> error, documentName |-> documentName]

Operations(storeName) ==
    LET names == {<<>>, OperationName(storeName)} IN
        {Operation(FALSE, n, None, <<>>) : n \in names}
    \cup {Operation(TRUE, n, Some(payload), <<>>) : n \in names, payload \in ErrorPayloads}
    \cup {Operation(TRUE, n, None, dn) :
            n \in names, dn \in {<<>>} \cup {storeName \o <<"documents", d>> : d \in DocIds}}

\* completedOperation.response?.documentName ?? completedOperation.name ?? "".
completedDocumentName(operation) ==
    IF operation.documentName # <<>> THEN operation.documentName
    ELSE IF operation.name # <<>> THEN operation.name
    ELSE EmptyString

\* (for comparison) the record pushed with the status the remote would
\* report for a document still being indexed.
uploadedDocumentProcessing(file, operation, t) ==
    [id |-> parseDocumentId(completedDocumentName(operation)),
     name |-> file.name,
     uploadDate |-> t,
     size |-> file.size,
     status |-> "processing"]

\* The record pushed for a file whose upload completed.
uploadedDocument(file, operation, t) ==
    [id |-> parseDocumentId(completedDocumentName(operation)),
     name |-> file.name,
     uploadDate |-> t,
     size |-> file.size,
     status |-> "indexed"]

\* The call's locals and what it has done so far.  pc is the await the call
\* stands at; uploads, polls and resolves count the remote calls made,
\* upserts the upsertDocuments calls; before holds the cache's documents when
\* the call was made.
UpIdle ==
    [pc |-> "idle", files |-> <<>>, index |-> 0, store |-> None,
     uploadedDocs |-> <<>>, operation |-> None, ticks |-> 0,
     resolves |-> 0, uploads |-> 0, polls |-> 0, upserts |-> 0,
     progress |-> 0, before |-> <<>>, error |-> "none", message |-> <<>>,
     events |-> <<>>]

\* What the loop does for the file at index, in the order it does it: the
\* progress callback, the upload request, the operation seen done.
Event(kind, index) == [kind |-> kind, index |-> index]

\* (for comparison) the upload requested without the progress callback.
requestUploadUnannounced(u) ==
    [u EXCEPT !.uploads = @ + 1,
              !.events = Append(@, Event("upload", u.index))]

\* options.onProgressUpdate?.(file, index, total), then the request of
\* uploadFileToStore, both before the loop's first await.
requestUpload(u) ==
    [u EXCEPT !.progress = @ + 1, !.uploads = @ + 1,
              !.events = @ \o <<Event("progress", u.index), Event("upload", u.index)>>]

\* (for comparison) the same throw with the merge in a finally block.
abortBatchMerging(u, raw, error) ==
    [up |-> [u EXCEPT !.pc = "failed", !.error = error, !.operation = None,
                      !.upserts = @ + 1],
     blob |-> upsertDocuments(raw, u.uploadedDocs).blob]

\* A throw inside uploadFilesToLibrary: nothing catches it, the call ends and
\* uploadedDocs goes with it.
abortBatch(u, raw, error) ==
    [up |-> [u EXCEPT !.pc = "failed", !.error = error, !.operation = None],
     blob |-> raw]

\* (for comparison) the same push with the record merged at once.
recordUploadedAtOnce(u, raw, doc) ==
    [up |-> [u EXCEPT !.uploadedDocs = Append(@, doc), !.index = @ + 1,
                      !.operation = None, !.ticks = 0,
                      !.pc = IF u.index + 1 < Len(u.files) THEN "upload" ELSE "upsert"],
     blob |-> upsertDocuments(raw, <<doc>>).blob]

\* uploadedDocs.push(...) for the file at index, then index += 1.
recordUploaded(u, raw, doc) ==
    [up |-> [u EXCEPT !.uploadedDocs = Append(@, doc), !.index = @ + 1,
                      !.operation = None, !.ticks = 0,
                      !.pc = IF u.index + 1 < Len(u.files) THEN "upload" ELSE "upsert"],
     blob |-> raw]

\* Caches the call can find: none, one written for store s1 holding nothing,
\* one holding a document.
CachedDocument ==
    [id |-> "d1", name |-> <<"a.pdf">>, uploadDate |-> 1,
     size |-> DocSize, status |-> "indexed"]

UploadBlobs ==
    {NoItem, GarbageText, JsonObject("s1", <<>>), JsonObject("s1", <<CachedDocument>>)}

InitUpload ==
    /\ blob \in UploadBlobs
    /\ stores \in {<<>>, <<RemoteStore("s1", storeDisplayName)>>}
    /\ now = 1
    /\ cacheLog = Logged("none", blob, Undefined, FALSE, Undefined)
    /\ res = IdleRes
    /\ up = UpIdle
    /\ ask = IdleAsk
    /\ cite = IdleCite

\* uploadFilesToLibrary(files, options) up to its first await.
UpCall ==
    /\ up.pc = "idle"
    /\ \E files \in SeqsUpTo(UploadableFiles, MaxFiles) :
          LET u == [up EXCEPT !.files = files,
                              !.before = getDocuments(blob).value]
          IN  IF Len(files) = 0
              THEN up' = [u EXCEPT !.pc = "failed", !.error = "no files"]
              ELSE up' = [u EXCEPT !.pc = "ensure"]
    /\ UNCHANGED <<blob, stores, now, cacheLog, res, ask, cite>>

\* const store = await ensureFileSearchStore(); the batch starts at index 0.
UpEnsure ==
    /\ up.pc = "ensure"
    /\ \E e \in Outcomes(blob, stores) :
          /\ blob' = e.blob
          /\ stores' = e.stores
          /\ up' = IF e.threw
                   THEN [up EXCEPT !.pc = "failed", !.error = "store",
                                   !.resolves = @ + 1]
                   ELSE [up EXCEPT !.pc = "upload", !.store = e.store,
                                   !.resolves = @ + 1]
    /\ UNCHANGED <<now, cacheLog, res, ask, cite>>

\* options.onProgressUpdate?.(file, index, total), then
\* operation = await uploadFileToStore(...): the request fails, or answers
\* with an operation.
UpUploadFile ==
    /\ up.pc = "upload"
    /\ LET u == requestUpload(up) IN
       \/ LET a == abortBatch(u, blob, "upload") IN
              up' = a.up /\ blob' = a.blob
       \/ \E operation \in Operations(up.store[1].name) :
              /\ up' = [u EXCEPT !.pc = "wait", !.operation = Some(operation)]
              /\ blob' = blob
    /\ UNCHANGED <<stores, now, cacheLog, res, ask, cite>>

\* One turn of the loop of waitForUploadCompletion: the sleep, the name
\* check, operations.get (which fails, or answers with the operation as it
\* stands; the remote completes an upload within MaxPolls answers) and onTick.
UpPoll ==
    /\ up.pc = "wait"
    /\ ~up.operation[1].done
    /\ IF missingName(up.operation[1])
       THEN LET a == abortBatch(up, blob, "operation has no name") IN
                up' = a.up /\ blob' = a.blob
       ELSE LET u == [up EXCEPT !.polls = @ + 1, !.ticks = @ + 1] IN
            \/ LET a == abortBatch(u, blob, "poll") IN
                   up' = a.up /\ blob' = a.blob
            \/ \E current \in Operations(up.store[1].name) :
                   /\ up.ticks + 1 >= MaxPolls => current.done
                   /\ up' = [u EXCEPT !.operation = Some(current)]
                   /\ blob' = blob
    /\ UNCHANGED <<stores, now, cacheLog, res, ask, cite>>

\* waitForUploadCompletion leaves its loop: an operation with an error
\* throws; otherwise the file's record is pushed, dated by the clock.
UpComplete ==
    /\ up.pc = "wait"
    /\ up.operation[1].done
    /\ LET u == [up EXCEPT !.events = Append(@, Event("done", up.index))] IN
       IF operationFailed(up.operation[1])
       THEN /\ LET a == abortBatch([u EXCEPT !.message =
                                       UploadFailed(up.operation[1].error[1])],
                                   blob, "operation failed")
               IN
                   up' = a.up /\ blob' = a.blob
            /\ now' = now
       ELSE \E t \in {d \in Dates : d >= now} :
               LET r == recordUploaded(u, blob,
                           uploadedDocument(up.files[up.index + 1], up.operation[1], t))
               IN  /\ up' = r.up
                   /\ blob' = r.blob
                   /\ now' = t
    /\ UNCHANGED <<stores, cacheLog, res, ask, cite>>

\* await upsertDocuments(uploadedDocs); return {store, documents}.
UpUpsert ==
    /\ up.pc = "upsert"
    /\ LET w == upsertDocuments(blob, up.uploadedDocs) IN
          /\ blob' = w.blob
          /\ up' = [up EXCEPT !.pc = "done", !.upserts = @ + 1]
    /\ UNCHANGED <<stores, now, cacheLog, res, ask, cite>>

NextUpload ==
    \/ UpCall
    \/ UpEnsure
    \/ UpUploadFile
    \/ UpPoll
    \/ UpComplete
    \/ UpUpsert

SpecUpload == InitUpload /\ [][NextUpload]_vars

\* The batch failed at a file: the upload request, a poll or the completed
\* operation threw.
FileErrors == {"upload", "operation has no name", "poll", "operation failed"}

FailedAtFile == up.pc = "failed" /\ up.error \in FileErrors

\* C1: a file list holding a file over the 100 MiB limit makes the call fail
\* with a size-limit error, before any remote call and with the cache as it
\* was.
C1_OversizedRejected ==
    (up.pc # "idle" /\ findOversizedFile(up.files, MAX_FILE_SIZE_BYTES) # None)
        => /\ up.pc = "failed"
           /\ up.error = "size limit"
           /\ up.resolves = 0 /\ up.uploads = 0 /\ up.polls = 0
           /\ getDocuments(blob).value = up.before

\* C2 as stated: when the batch throws at file k, the records produced for
\* files 0..k-1 have been merged into the cache by an upsert.
C2_ProducedRecordsMerged ==
    FailedAtFile =>
        /\ up.uploadedDocs # <<>> => up.upserts >= 1
        /\ \A i \in 1..Len(up.uploadedDocs) :
              \E j \in 1..Len(cachedDocuments) :
                  cachedDocuments[j].id = up.uploadedDocs[i].id

\* C2, as the code has it: when the batch throws at file k, the files after k
\* are not attempted and upsertDocuments is never called for the batch; the
\* k records produced so far are dropped with the call.
C2_NoMergeOnFailure ==
    FailedAtFile =>
        /\ up.upserts = 0
        /\ up.uploads = up.index + 1
        /\ Len(up.uploadedDocs) = up.index
        /\ up.index < Len(up.files)

C2_Witness ==
    /\ up.pc = "failed"
    /\ up.error = "poll"
    /\ up.index = 1
    /\ Len(up.files) = 2
    /\ Len(up.uploadedDocs) = 1

\* C3: a batch that fails part-way leaves the cache's documents exactly as
\* they were before the call.
C3_FailedBatchLeavesDocuments ==
    up.pc = "failed" => getDocuments(blob).value = up.before

C3_Witness ==
    /\ up.pc = "failed"
    /\ up.error = "operation failed"
    /\ up.before = <<CachedDocument>>
    /\ Len(up.uploadedDocs) = 1
    /\ up.uploadedDocs[1].id = "d2"
    /\ getDocuments(blob).value = <<CachedDocument>>

\* C11: a batch of n files that all upload, with n different document ids and
\* an empty cache to start from, leaves exactly n records in the cache, each
\* indexed, by uploadDate descending, and the call returns those n documents.
C11_BatchCachedIndexed ==
    (up.pc = "done" /\ up.before = <<>> /\ NoDuplicateIds(up.uploadedDocs)) =>
        /\ Len(up.uploadedDocs) = Len(up.files)
        /\ Len(cachedDocuments) = Len(up.files)
        /\ \A i \in 1..Len(cachedDocuments) : cachedDocuments[i].status = "indexed"
        /\ SortedDescending(cachedDocuments)
        /\ Range(cachedDocuments) = Range(up.uploadedDocs)
        /\ \A i \in 1..Len(up.files) :
              /\ up.uploadedDocs[i].name = up.files[i].name
              /\ up.uploadedDocs[i].size = up.files[i].size

C11_Witness ==
    /\ up.pc = "done"
    /\ up.before = <<>>
    /\ Len(up.files) = 2
    /\ up.uploadedDocs[1].id = "d1"
    /\ up.uploadedDocs[2].id = "d2"
    /\ up.uploadedDocs[1].uploadDate < up.uploadedDocs[2].uploadDate
    /\ cachedDocuments = <<up.uploadedDocs[2], up.uploadedDocs[1]>>

\* The events of a batch in which every file goes through, index by index.
EventKinds == <<"progress", "upload", "done">>

Canonical(n) == [k \in 1..(3 * n) |-> Event(EventKinds[((k - 1) % 3) + 1], (k - 1) \div 3)]

CountOf(kind) == Cardinality({k \in 1..Len(up.events) : up.events[k].kind = kind})

\* C12: within a batch the files go one after the other, each announced
\* first: progress callback i, upload request i, operation i seen done,
\* progress callback i+1; one progress callback per attempted file, one store
\* resolution per batch, never two upload operations in flight.
C12_SequentialAnnounced ==
    /\ Len(up.events) <= 3 * Len(up.files)
    /\ up.events = SubSeq(Canonical(Len(up.files)), 1, Len(up.events))
    /\ up.progress = up.uploads
    /\ up.progress = CountOf("progress")
    /\ up.uploads = CountOf("upload")
    /\ CountOf("upload") - CountOf("done") \in {0, 1}
    /\ up.resolves <= 1
    /\ up.uploads > 0 => up.resolves = 1
    /\ up.pc = "done" => up.resolves = 1 /\ up.progress = Len(up.files)

C12_Witness ==
    /\ up.pc = "wait"
    /\ up.index = 1
    /\ up.polls = 1
    /\ up.events = SubSeq(Canonical(2), 1, 5)

\* C14: an operation that completes carrying an error payload makes
\* waitForUploadCompletion fail with an upload error built from the payload;
\* no record is produced for that file and no later file is uploaded.
C14_OperationErrorFailsBatch ==
    /\ [][(/\ up.pc = "wait"
           /\ up.operation[1].done
           /\ up.operation[1].error # None)
          => /\ up'.pc = "failed"
             /\ up'.error = "operation failed"
             /\ up'.message = <<"Upload failed: ", up.operation[1].error[1]>>
             /\ up'.uploadedDocs = up.uploadedDocs
             /\ up'.uploads = up.uploads
             /\ blob' = blob]_vars
    /\ [](up.error = "operation failed" =>
            /\ up.pc = "failed"
            /\ Len(up.uploadedDocs) = up.index
            /\ up.uploads = up.index + 1
            /\ up.upserts = 0)

C14_Witness ==
    /\ up.pc = "failed"
    /\ up.error = "operation failed"
    /\ up.message = <<"Upload failed: ", "quota exceeded">>
    /\ up.index = 1
    /\ Len(up.files) = 2
    /\ up.polls >= 1

-----------------------------------------------------------------------------
(* lib/file-search.ts: waitForUploadCompletion against a remote that       *)
(* finishes the operation some day, or never does                          *)

PollsCounted == 3   \* polls counted one by one; further polls are not told apart

PollStoreName == StoreName("s1")

\* The operation as the remote reports it when asked: not done until the
\* remote has finished it, then done with or without an error.
RemoteAnswers(finished) ==
    {o \in Operations(PollStoreName) : o.done = finished}

\* (for comparison) a loop that also ends on an operation without a name.
stillPollingNamed(current) == ~current.done /\ current.name # <<>>

\* while (!current.done)
stillPolling(current) == ~current.done

\* waitForUploadCompletion(operation, onTick): pc is where it stands (at the
\* loop test, in its sleep, returned, or failed), current its local, polls
\* the operations.get calls made; remote tells whether the remote ever
\* finishes the operation, finished whether it has.
InitPoll ==
    /\ blob = NoItem
    /\ stores = <<RemoteStore("s1", storeDisplayName)>>
    /\ now = 1
    /\ cacheLog = Logged("none", blob, Undefined, FALSE, Undefined)
    /\ res = IdleRes
    /\ ask = IdleAsk
    /\ cite = IdleCite
    /\ \E remote \in {"finishes", "never"} :
       \E finished \in IF remote = "never" THEN {FALSE} ELSE BOOLEAN :
       \E operation \in RemoteAnswers(finished) :
          up = [pc |-> "test", current |-> operation, polls |-> 0,
                remote |-> remote, finished |-> finished, error |-> "none",
                message |-> <<>>,
                pollFailed |-> FALSE]

\* The remote finishes the operation.
RemoteFinishes ==
    /\ up.remote = "finishes"
    /\ ~up.finished
    /\ up.pc \in {"test", "sleep"}
    /\ up' = [up EXCEPT !.finished = TRUE]
    /\ UNCHANGED <<blob, stores, now, cacheLog, res, ask, cite>>

\* The loop test holds: await new Promise((resolve) => setTimeout(resolve, 2000)).
WaitSleep ==
    /\ up.pc = "test"
    /\ stillPolling(up.current)
    /\ up' = [up EXCEPT !.pc = "sleep"]
    /\ UNCHANGED <<blob, stores, now, cacheLog, res, ask, cite>>

\* After the sleep: the name check, then operations.get, which fails or
\* answers with the operation as it stands, and onTick.
WaitGet ==
    /\ up.pc = "sleep"
    /\ IF missingName(up.current)
       THEN up' = [up EXCEPT !.pc = "failed", !.error = "operation has no name"]
       ELSE LET counted == IF up.polls < PollsCounted THEN up.polls + 1 ELSE up.polls IN
            \/ up' = [up EXCEPT !.pc = "failed", !.error = "poll",
                                !.polls = counted, !.pollFailed = TRUE]
            \/ \E current \in RemoteAnswers(up.finished) :
                  up' = [up EXCEPT !.pc = "test", !.current = current, !.polls = counted]
    /\ UNCHANGED <<blob, stores, now, cacheLog, res, ask, cite>>

\* The loop test fails: an operation with an error throws, any other is
\* returned.
WaitExit ==
    /\ up.pc = "test"
    /\ ~stillPolling(up.current)
    /\ up' = IF operationFailed(up.current)
             THEN [up EXCEPT !.pc = "failed", !.error = "operation failed",
                             !.message = UploadFailed(up.current.error[1])]
             ELSE [up EXCEPT !.pc = "returned"]
    /\ UNCHANGED <<blob, stores, now, cacheLog, res, ask, cite>>

NextPoll ==
    \/ RemoteFinishes
    \/ WaitSleep
    \/ WaitGet
    \/ WaitExit

\* Every await of the function settles: the timer fires, operations.get
\* answers or fails.
SpecPoll ==
    /\ InitPoll
    /\ [][NextPoll]_vars
    /\ WF_vars(WaitSleep)
    /\ WF_vars(WaitGet)
    /\ WF_vars(WaitExit)

PollEnded == up.pc \in {"returned", "failed"}

\* C13: waitForUploadCompletion has no maximum poll count.  It returns only
\* an operation that is done; once the remote reports done it ends; against
\* a remote that never reports done it neither returns nor fails (unless a
\* poll fails or the operation has no name) and goes on sleeping and polling
\* for ever.
C13_PollsUntilDone ==
    /\ [](up.pc = "returned" => up.current.done /\ up.current.error = None)
    /\ [](up.pc = "failed" =>
            up.error \in {"operation has no name", "poll", "operation failed"})
    /\ [](up.finished => <>PollEnded)
    /\ [](up.remote = "never" =>
            /\ up.pc # "returned"
            /\ up.pc = "failed" => up.error \in {"operation has no name", "poll"})
    /\ [](up.remote = "never" /\ up.pc = "test" => <>(up.pc = "sleep"))
    /\ [](up.remote = "never" /\ up.pc = "sleep" => <>(up.pc = "test" \/ PollEnded))

C13_Witness ==
    /\ up.remote = "never"
    /\ up.polls = PollsCounted
    /\ up.pc = "sleep"
    /\ up.current.name # <<>>

\* C22: waitForUploadCompletion, holding an operation that is not done and
\* has no name, fails with the missing-name error at its next turn of the
\* loop and makes no operations.get call for it; handed such an operation,
\* it ends having made none at all.
C22_NamelessOperationFails ==
    /\ [][up.pc = "sleep" /\ up.current.name = <<>> /\ up'.finished = up.finished
            => /\ up'.pc = "failed"
               /\ up'.error = "operation has no name"
               /\ up'.polls = up.polls
               /\ up'.current = up.current]_vars
    /\ [](~up.current.done /\ up.current.name = <<>> /\ up.pc # "failed"
            => <>(up.pc = "failed" /\ up.error = "operation has no name"))
    /\ [](up.error = "operation has no name"
            => ~up.current.done /\ up.current.name = <<>> /\ ~up.pollFailed)
    /\ [](up.polls = 0 /\ ~up.current.done /\ up.current.name = <<>>
            => [](up.polls = 0))

\* Handed an operation without a name, the function failed without a get.
C22_Witness ==
    /\ up.pc = "failed"
    /\ up.error = "operation has no name"
    /\ up.polls = 0
    /\ up.current.name = <<>>
    /\ ~up.current.done

-----------------------------------------------------------------------------
(* lib/ask.ts: the ask flow.  A string is the sequence of its characters;  *)
(* an optional value is None or Some(v).                                   *)

DEFAULT_MAX_CONTEXT_MESSAGES == 10

MaxContext == 2     \* largest maxContextMessages a caller passes
MaxTurns == 3       \* longest conversation the first ask is given

Whitespace == {" ", "\n"}

\* String.prototype.trim.
RECURSIVE trimStart(_)
trimStart(s) ==
    IF s # <<>> /\ Head(s) \in Whitespace THEN trimStart(Tail(s)) ELSE s

RECURSIVE trimEnd(_)
trimEnd(s) ==
    IF s # <<>> /\ s[Len(s)] \in Whitespace
    THEN trimEnd(SubSeq(s, 1, Len(s) - 1))
    ELSE s

trim(s) == trimEnd(trimStart(s))

\* Content: a role and its parts; a text part is [text |-> Some(chars)].
TextPart(t) == [text |-> Some(t)]

Content(role, parts) == [role |-> role, parts |-> parts]

UserTurn(t) == Content("user", Some(<<TextPart(t)>>))

\* parts.map((part) => part.text).filter(Boolean).join("\n\n")
RECURSIVE joinTexts(_)
joinTexts(parts) ==
    IF parts = <<>> THEN <<>>
    ELSE LET t == Head(parts).text
             rest == joinTexts(Tail(parts))
         IN  IF t = None \/ t = Some(<<>>) THEN rest
             ELSE IF rest = <<>> /\ \A k \in 1..Len(Tail(parts)) :
                                        Tail(parts)[k].text \in {None, Some(<<>>)}
             THEN t[1]
             ELSE t[1] \o <<"\n", "\n">> \o rest

\* extractText(content): undefined without parts, else the joined text,
\* trimmed.
extractText(content) ==
    IF content = None THEN None
    ELSE IF content[1].parts = None THEN None
    ELSE IF content[1].parts[1] = <<>> THEN None
    ELSE Some(trim(joinTexts(content[1].parts[1])))

\* buildAskHistory(question, conversation).
buildAskHistory(question, conversation) ==
    LET trimmed == trim(question) IN
    IF trimmed = <<>> THEN Thrown
    ELSE Returned(Append(conversation, UserTurn(trimmed)))

\* (for comparison) a turn appended whatever the response holds.
appendModelTurnAlways(history, result) ==
    IF Len(history) = 0 THEN history
    ELSE IF result.modelContent # None
    THEN Append(history,
                Content(IF result.modelContent[1].role # None
                        THEN result.modelContent[1].role[1]
                        ELSE "model",
                        result.modelContent[1].parts))
    ELSE Append(history,
                Content("model",
                        Some(<<TextPart(IF result.answer = None THEN <<>>
                                        ELSE result.answer[1])>>)))

\* appendModelResponse(history, result).
appendModelResponse(history, result) ==
    IF Len(history) = 0 THEN history
    ELSE IF result.modelContent # None
    THEN Append(history,
                Content(IF result.modelContent[1].role # None
                        THEN result.modelContent[1].role[1]
                        ELSE "model",
                        result.modelContent[1].parts))
    ELSE IF result.answer # None /\ result.answer # Some(<<>>)
    THEN Append(history, Content("model", Some(<<TextPart(result.answer[1])>>)))
    ELSE history

\* Array.prototype.slice(start) for 0 <= start.
slice(a, start) == SubSeq(a, start + 1, Len(a))

\* (for comparison) the window taken from the front.
trimKeepingOldest(history, maxContextMessages) ==
    IF Len(history) <= maxContextMessages THEN history
    ELSE SubSeq(history, 1, maxContextMessages)

\* (for comparison) the window one turn short.
trimOneTooMany(history, maxContextMessages) ==
    IF Len(history) <= maxContextMessages THEN history
    ELSE slice(history, Len(history) - maxContextMessages + 1)

\* trimConversation(history, maxContextMessages).
trimConversation(history, maxContextMessages) ==
    IF Len(history) <= maxContextMessages THEN history
    ELSE slice(history, Len(history) - maxContextMessages)

\* (for comparison) a question never found missing.
questionNeverMissing(trimmed) == FALSE

\* if (!trimmedQuestion), trimmedQuestion being options.question?.trim().
questionMissing(trimmed) == trimmed = <<>>

\* What an ask that threw leaves: error tells where, resolves, generates and
\* cacheReads count the ensureFileSearchStore, generateContent and
\* getCachedDocuments calls made before.
AskFailed(error, resolves, generates, raw, sts) ==
    [threw |-> TRUE, error |-> error, history |-> <<>>, answer |-> None,
     modelContent |-> None, conversationWithResponse |-> <<>>,
     conversation |-> <<>>, resolves |-> resolves, generates |-> generates,
     cacheReads |-> 0, blob |-> raw, stores |-> sts]

\* askLibrary(options), options being [question, conversation, history,
\* documents] with the last two optional: the store is resolved (e is how
\* that went), generateContent answers with response or fails, the cached
\* documents are read when none were passed.
askLibrary(options, e, generateOk, response, raw, sts) ==
    LET trimmedQuestion == trim(options.question) IN
    IF questionMissing(trimmedQuestion) THEN AskFailed("validation", 0, 0, raw, sts)
    ELSE IF e.threw THEN AskFailed("store", 1, 0, e.blob, e.stores)
    ELSE IF ~generateOk THEN AskFailed("generate", 1, 1, e.blob, e.stores)
    ELSE LET history == IF options.history # None THEN options.history[1]
                        ELSE Append(options.conversation, UserTurn(trimmedQuestion))
             text == IF response.text # None THEN response.text
                     ELSE extractText(response.content)
         IN  [threw |-> FALSE, error |-> "none",
              history |-> history,
              answer |-> IF text = None THEN None ELSE Some(trim(text[1])),
              modelContent |-> response.content,
              conversationWithResponse |-> <<>>, conversation |-> <<>>,
              resolves |-> 1, generates |-> 1,
              cacheReads |-> IF options.documents = None THEN 1 ELSE 0,
              blob |-> e.blob, stores |-> e.stores]

\* A runAskFlow that stopped at its own question check.
AskThrew(raw, sts) == AskFailed("validation", 0, 0, raw, sts)

\* runAskFlow(options), options being [question, conversation, history,
\* documents, maxContextMessages] with the last three optional: askLibrary's
\* result with the conversation to carry on with.
runAskFlow(options, e, generateOk, response, raw, sts) ==
    LET question == trim(options.question)
        built == buildAskHistory(question, options.conversation)
        maxContextMessages == options.maxContextMessages
    IN
    IF questionMissing(question) THEN AskThrew(raw, sts)
    ELSE IF options.history = None /\ built.threw THEN AskThrew(raw, sts)
    ELSE LET history == IF options.history # None THEN options.history[1] ELSE built.value
             askResult == askLibrary([question |-> question,
                                      conversation |-> options.conversation,
                                      history |-> Some(history),
                                      documents |-> options.documents],
                                     e, generateOk, response, raw, sts)
         IN  IF askResult.threw THEN askResult
             ELSE LET conversationWithResponse == appendModelResponse(history, askResult)
                  IN  [askResult EXCEPT
                         !.conversationWithResponse = conversationWithResponse,
                         !.conversation =
                             trimConversation(conversationWithResponse,
                                 IF maxContextMessages # None
                                 THEN maxContextMessages[1]
                                 ELSE DEFAULT_MAX_CONTEXT_MESSAGES)]

\* What the asks are made of.  Under the default window of 10 the asks draw
\* on one question and two responses, under a passed window on all of them.
Questions(window) ==
    IF window = None THEN {<<>>, <<" ">>, <<" ", "q">>}
    ELSE {<<>>, <<" ">>, <<" ", "q">>, <<"r", "\n">>}

PartsOf(window) ==
    IF window = None THEN {Some(<<TextPart(<<"a">>)>>)}
    ELSE {None, Some(<<>>),
          Some(<<[text |-> None], TextPart(<<"a">>), TextPart(<<"b", " ">>)>>)}

ModelContents(window) ==
    {None} \cup {Some([role |-> r, parts |-> p]) :
                    r \in IF window = None THEN {None} ELSE {None, Some("model")},
                    p \in PartsOf(window)}

\* A response: its text and the content of its first candidate.  Without a
\* candidate the text is absent, empty or an answer; with one it is absent
\* (the answer is then read off the parts) or, for the first-listed content,
\* an answer.
Responses(window) ==
    IF window = None THEN [text : {None}, content : ModelContents(window)]
    ELSE [text : {None, Some(<<>>), Some(<<"a", " ">>)}, content : {None}]
         \cup [text : {None}, content : ModelContents(window) \ {None}]
         \cup [text : {Some(<<"a", " ">>)},
               content : {Some([role |-> None, parts |-> Some(<<>>)])}]

Windows == {None} \cup {Some(n) : n \in 0..MaxContext}

FirstConversations(window) ==
    IF window = None THEN {<<>>}
    ELSE SeqsUpTo({UserTurn(<<"q">>), Content("model", Some(<<TextPart(<<"a">>)>>))},
                  MaxTurns)

\* How the store resolution of an ask can go, as far as the ask is concerned:
\* whether it threw and what it left in the cache and at the remote.
StoreOutcomes(raw, sts) ==
    {[threw |-> e.threw, blob |-> e.blob, stores |-> e.stores] : e \in Outcomes(raw, sts)}

\* No call yet.
NotCalled(raw, sts) == AskFailed("none", 0, 0, raw, sts)

AskLogged(op, threw, prior, question, r) ==
    [op |-> op, threw |-> threw, prior |-> prior, question |-> question,
     error |-> r.error, history |-> r.history,
     answer |-> r.answer, modelContent |-> r.modelContent,
     conversationWithResponse |-> r.conversationWithResponse,
     conversation |-> r.conversation,
     resolves |-> r.resolves, generates |-> r.generates, cacheReads |-> r.cacheReads]

InitAsk ==
    /\ blob = NoItem
    /\ stores = <<>>
    /\ now = 1
    /\ cacheLog = Logged("none", blob, Undefined, FALSE, Undefined)
    /\ res = IdleRes
    /\ up = IdleUp
    /\ \E window \in Windows :
       \E conversation \in FirstConversations(window) :
          ask = [conversation |-> conversation, maxContextMessages |-> window,
                 last |-> AskLogged("none", FALSE, <<>>, <<>>, NotCalled(blob, stores))]
    /\ cite = IdleCite

\* One ask of the chain: runAskFlow with the conversation the previous ask
\* returned, the history either left out or built by the caller with
\* buildAskHistory; the conversation it returns is the next ask's.
Ask ==
    /\ \E e \in StoreOutcomes(blob, stores) :
       \E question \in Questions(ask.maxContextMessages) :
       \E withHistory \in BOOLEAN :
       \E generateOk \in BOOLEAN :
       \E response \in IF generateOk /\ ~e.threw /\ trim(question) # <<>>
                       THEN Responses(ask.maxContextMessages)
                       ELSE {[text |-> None, content |-> None]} :
          LET built == buildAskHistory(question, ask.conversation)
              options == [question |-> question,
                          conversation |-> ask.conversation,
                          history |-> IF withHistory /\ ~built.threw
                                      THEN Some(built.value) ELSE None,
                          documents |-> Some(getDocuments(blob).value),
                          maxContextMessages |-> ask.maxContextMessages]
              r == runAskFlow(options, e, generateOk, response, blob, stores)
          IN  /\ blob' = r.blob
              /\ stores' = r.stores
              /\ ask' = [ask EXCEPT
                           !.conversation = IF r.threw THEN @ ELSE r.conversation,
                           !.last = AskLogged("runAskFlow", r.threw, ask.conversation,
                                              question, r)]
    /\ UNCHANGED <<now, cacheLog, res, up, cite>>

\* clearHistory of the ask hook: the chain starts over.
AskClearHistory ==
    /\ ask' = [ask EXCEPT !.conversation = <<>>,
                          !.last = AskLogged("clearHistory", FALSE, ask.conversation,
                                             <<>>, NotCalled(blob, stores))]
    /\ UNCHANGED <<blob, stores, now, cacheLog, res, up, cite>>

\* askLibrary({question}) called on its own, as the ask tool calls it: no
\* conversation, no history, no documents.
AskLibraryCall ==
    /\ \E e \in StoreOutcomes(blob, stores) :
       \E question \in Questions(ask.maxContextMessages) :
       \E generateOk \in BOOLEAN :
       \E response \in IF generateOk /\ ~e.threw /\ trim(question) # <<>>
                       THEN Responses(ask.maxContextMessages)
                       ELSE {[text |-> None, content |-> None]} :
          LET r == askLibrary([question |-> question, conversation |-> <<>>,
                               history |-> None, documents |-> None],
                              e, generateOk, response, blob, stores)
          IN  /\ blob' = r.blob
              /\ stores' = r.stores
              /\ ask' = [ask EXCEPT
                           !.last = AskLogged("askLibrary", r.threw, ask.conversation,
                                              question, r)]
    /\ UNCHANGED <<now, cacheLog, res, up, cite>>

NextAsk ==
    \/ Ask
    \/ AskClearHistory

SpecAsk == InitAsk /\ [][NextAsk]_vars

\* The asks of the command and of the tool side by side, from an empty
\* conversation under the default window.
InitAskCalls ==
    /\ InitAsk
    /\ ask.maxContextMessages = None

NextAskCalls ==
    \/ Ask
    \/ AskClearHistory
    \/ AskLibraryCall

SpecAskCalls == InitAskCalls /\ [][NextAskCalls]_vars

\* The window an ask works with.
windowOf(a) ==
    IF a.maxContextMessages # None THEN a.maxContextMessages[1]
    ELSE DEFAULT_MAX_CONTEXT_MESSAGES

Answered == ask.last.op = "runAskFlow" /\ ~ask.last.threw

\* The last n turns of h, in order (h itself when it has no more than n).
IsLastTurns(out, h, n) ==
    IF Len(h) > n
    THEN /\ Len(out) = n
         /\ \A i \in 1..n : out[i] = h[Len(h) - n + i]
    ELSE out = h

\* C7: trimConversation returns exactly the last maxContextMessages turns of
\* a longer history, in their order, and returns a history of at most
\* maxContextMessages turns unchanged.
C7_TrimKeepsLastTurns ==
    Answered =>
        IsLastTurns(ask.last.conversation, ask.last.conversationWithResponse,
                    windowOf(ask))

C7_Witness ==
    /\ Answered
    /\ ask.maxContextMessages = Some(2)
    /\ Len(ask.last.conversationWithResponse) = 5
    /\ ask.last.conversation =
          <<UserTurn(<<"r">>), Content("model", Some(<<TextPart(<<"a">>)>>))>>

IsModelTurn(turn) == turn.role = "model"

\* C8 as stated: the returned conversation has at most maxContextMessages
\* turns and is the last maxContextMessages turns of the prior conversation,
\* the new user turn and a turn of the model.
C8_WindowOfPriorUserModel ==
    Answered =>
        /\ Len(ask.conversation) <= windowOf(ask)
        /\ ask.conversation = ask.last.conversation
        /\ LET h == ask.last.conversationWithResponse IN
              /\ Len(h) = Len(ask.last.prior) + 2
              /\ SubSeq(h, 1, Len(h) - 2) = ask.last.prior
              /\ h[Len(h) - 1].role = "user"
              /\ IsModelTurn(h[Len(h)])
              /\ IsLastTurns(ask.conversation, h, windowOf(ask))

\* Whether the response of the last ask holds something to append: content,
\* or a non-empty answer.
Responded ==
    ask.last.modelContent # None \/ ask.last.answer \notin {None, Some(<<>>)}

\* C8, as the code has it: the returned conversation has at most
\* maxContextMessages turns and is the last maxContextMessages turns of the
\* prior conversation, the new user turn and, when the response has content
\* or a non-empty answer, the model's turn (the content's parts, else the
\* answer as one text part); a response with neither adds no turn.
C8_WindowOfPriorUserAndAnyModelTurn ==
    Answered =>
        /\ Len(ask.conversation) <= windowOf(ask)
        /\ ask.conversation = ask.last.conversation
        /\ LET h == ask.last.conversationWithResponse
               asked == ask.last.history
           IN
              /\ Len(asked) = Len(ask.last.prior) + 1
              /\ SubSeq(asked, 1, Len(asked) - 1) = ask.last.prior
              /\ asked[Len(asked)].role = "user"
              /\ IF Responded
                 THEN /\ Len(h) = Len(asked) + 1
                      /\ SubSeq(h, 1, Len(asked)) = asked
                      /\ IsModelTurn(h[Len(h)])
                      /\ h[Len(h)].parts =
                            IF ask.last.modelContent # None
                            THEN ask.last.modelContent[1].parts
                            ELSE Some(<<TextPart(ask.last.answer[1])>>)
                 ELSE h = asked
              /\ IsLastTurns(ask.conversation, h, windowOf(ask))

C8_Witness ==
    /\ Answered
    /\ ask.maxContextMessages = None
    /\ Len(ask.last.prior) = DEFAULT_MAX_CONTEXT_MESSAGES
    /\ Len(ask.conversation) = DEFAULT_MAX_CONTEXT_MESSAGES
    /\ Responded
    /\ ask.last.prior[1].role = "model"

\* User and model turns in strict alternation, a user turn first and a
\* model turn last (the empty conversation included).
Alternates(conversation) ==
    /\ Len(conversation) % 2 = 0
    /\ \A i \in 1..Len(conversation) :
          conversation[i].role = IF i % 2 = 1 THEN "user" ELSE "model"

\* C29 as stated: under the default window, from an empty conversation, the
\* stored conversation alternates user and model turns, a user turn first
\* and a model turn last, and every ask that returns has appended one user
\* turn and one model turn.
C29_ConversationAlternates ==
    /\ Alternates(ask.conversation)
    /\ Answered =>
          Len(ask.last.conversationWithResponse) = Len(ask.last.prior) + 2

\* C29, as the code has it: under the default window, from an empty
\* conversation, every step keeps the stored conversation alternating,
\* user turn first and model turn last, except an ask that returns with a
\* response holding neither content nor a non-empty answer; an ask whose
\* response holds one appends the user turn and the model turn and the
\* window of 10 keeps them as the last two turns; an ask whose response
\* holds neither appends the user turn alone.
C29_AnsweredAsksKeepAlternation ==
    /\ [][(Alternates(ask.conversation) /\ ~(Answered' /\ ~Responded'))
            => Alternates(ask'.conversation)]_vars
    /\ []((Answered /\ Responded) =>
            LET h == ask.last.conversationWithResponse
                n == Len(ask.conversation)
            IN  /\ Len(h) = Len(ask.last.prior) + 2
                /\ n >= 2
                /\ ask.conversation[n - 1] = h[Len(h) - 1]
                /\ ask.conversation[n] = h[Len(h)]
                /\ ask.conversation[n - 1] = UserTurn(trim(ask.last.question))
                /\ IsModelTurn(ask.conversation[n]))
    /\ []((Answered /\ ~Responded) =>
            /\ ask.last.conversationWithResponse =
                  Append(ask.last.prior, UserTurn(trim(ask.last.question)))
            /\ ask.conversation =
                  trimConversation(ask.last.conversationWithResponse,
                                   DEFAULT_MAX_CONTEXT_MESSAGES))

\* An answered ask on a full window: the two oldest turns went, the
\* conversation still alternates.
C29_Witness ==
    /\ Answered
    /\ Responded
    /\ Alternates(ask.last.prior)
    /\ Len(ask.last.prior) = DEFAULT_MAX_CONTEXT_MESSAGES
    /\ Len(ask.last.conversationWithResponse) = DEFAULT_MAX_CONTEXT_MESSAGES + 2
    /\ Alternates(ask.conversation)
    /\ Len(ask.conversation) = DEFAULT_MAX_CONTEXT_MESSAGES

\* Two questions in a row: the first got a response with nothing in it.
C29_TwoUserTurnsInARow ==
    /\ Answered
    /\ Len(ask.conversation) >= 3
    /\ \E i \in 1..(Len(ask.conversation) - 1) :
          ask.conversation[i].role = "user" /\ ask.conversation[i + 1].role = "user"

Asked == ask.last.op \in {"runAskFlow", "askLibrary"}

\* C15: an ask whose question is empty once trimmed fails with a validation
\* error before any remote call: no store resolution, no generate call, no
\* cache read, in askLibrary and in runAskFlow alike; nothing is changed.
C15_EmptyQuestionRejected ==
    /\ []((Asked /\ trim(ask.last.question) = <<>>) =>
            /\ ask.last.threw
            /\ ask.last.error = "validation"
            /\ ask.last.resolves = 0
            /\ ask.last.generates = 0
            /\ ask.last.cacheReads = 0)
    /\ [][(ask'.last.op \in {"runAskFlow", "askLibrary"}
           /\ trim(ask'.last.question) = <<>>)
          => /\ blob' = blob
             /\ stores' = stores
             /\ ask'.conversation = ask.conversation]_vars

C15_Witness ==
    /\ ask.last.op = "askLibrary"
    /\ ask.last.question = <<" ">>
    /\ ask.last.error = "validation"
    /\ ask.last.resolves = 0
    /\ ask.conversation # <<>>

-----------------------------------------------------------------------------
(* tools/note.ts: the note tool, one await at a time; its upload is the    *)
(* batch upload above, handed the one temporary file                       *)

\* Notes handed to the tool: a blank one, one within the size limit, one
\* that formats to a byte over it.
NoteInputs ==
    {[content |-> <<" ">>, size |-> 2],
     [content |-> <<"n">>, size |-> DocSize],
     [content |-> <<"N">>, size |-> MAX_FILE_SIZE_BYTES + 1]}

NoteTitle == <<"Untitled Note">>

\* The call's locals, the temporary file on disk and what the call has done:
\* written tells that writeFile resolved, unlinks counts the unlink calls.
NoteIdle ==
    [pc |-> "idle", content |-> <<>>, estimatedSize |-> 0,
     tempFileCreated |-> FALSE, fileExists |-> FALSE, written |-> FALSE,
     writes |-> 0, unlinks |-> 0, unlinkFailed |-> FALSE, result |-> "none"]

\* (for comparison) the clean-up of the finally block skipped after a
\* failure.
cleansUpOnSuccess(n) == n.tempFileCreated /\ n.result = "success"

\* finally { if (tempFileCreated) ... }
cleansUp(n) == n.tempFileCreated

InitNote ==
    /\ blob \in UploadBlobs
    /\ stores \in {<<>>, <<RemoteStore("s1", storeDisplayName)>>}
    /\ now = 1
    /\ cacheLog = Logged("none", blob, Undefined, FALSE, Undefined)
    /\ res = NoteIdle
    /\ up = UpIdle
    /\ ask = IdleAsk
    /\ cite = IdleCite

\* noteTool(input) up to its first await: blank content and content over
\* the limit are answered at once.
NoteCall ==
    /\ res.pc = "idle"
    /\ \E input \in NoteInputs :
          LET trimmedContent == trim(input.content)
              n == [res EXCEPT !.content = trimmedContent,
                               !.estimatedSize = input.size]
          IN  IF trimmedContent = <<>>
              THEN res' = [n EXCEPT !.pc = "returned", !.result = "no content"]
              ELSE IF input.size > MAX_FILE_SIZE_BYTES
              THEN res' = [n EXCEPT !.pc = "returned", !.result = "too large"]
              ELSE res' = [n EXCEPT !.pc = "write"]
    /\ UNCHANGED <<blob, stores, now, cacheLog, up, ask, cite>>

\* await writeFile(filePath, fileContents, "utf8"); tempFileCreated = true.
\* A writeFile that rejects has made no file, or has left one it could not
\* fill.
NoteWrite ==
    /\ res.pc = "write"
    /\ \/ res' = [res EXCEPT !.pc = "stat", !.writes = @ + 1, !.written = TRUE,
                             !.fileExists = TRUE, !.tempFileCreated = TRUE]
       \/ \E left \in BOOLEAN :
             res' = [res EXCEPT !.pc = "finally", !.writes = @ + 1,
                                !.fileExists = left, !.result = "error"]
    /\ UNCHANGED <<blob, stores, now, cacheLog, up, ask, cite>>

\* const fileStats = await stat(filePath); the size check of the written
\* file; uploadFilesToLibrary([uploadable], ...) up to its first await.
NoteStat ==
    /\ res.pc = "stat"
    /\ \/ LET uploadable == [name |-> NoteTitle, size |-> res.estimatedSize] IN
          IF findOversizedFile(<<uploadable>>, MAX_FILE_SIZE_BYTES) # None
          THEN /\ res' = [res EXCEPT !.pc = "finally", !.result = "error"]
               /\ up' = up
          ELSE /\ res' = [res EXCEPT !.pc = "upload"]
               /\ up' = [up EXCEPT !.files = <<uploadable>>,
                                   !.before = getDocuments(blob).value,
                                   !.pc = "ensure"]
       \/ /\ res' = [res EXCEPT !.pc = "finally", !.result = "error"]
          /\ up' = up
    /\ UNCHANGED <<blob, stores, now, cacheLog, ask, cite>>

\* await uploadFilesToLibrary(...) settles: the result is made from the
\* first document, or the catch block makes the error result.
NoteUploaded ==
    /\ res.pc = "upload"
    /\ up.pc \in {"done", "failed"}
    /\ res' = [res EXCEPT !.pc = "finally",
                          !.result = IF up.pc = "done" /\ up.uploadedDocs # <<>>
                                     THEN "success" ELSE "error"]
    /\ UNCHANGED <<blob, stores, now, cacheLog, up, ask, cite>>

\* The finally block: await unlink(filePath).catch(log); then the tool
\* returns.
NoteFinally ==
    /\ res.pc = "finally"
    /\ IF cleansUp(res)
       THEN \/ res' = [res EXCEPT !.pc = "returned", !.unlinks = @ + 1,
                                  !.fileExists = FALSE]
            \/ res' = [res EXCEPT !.pc = "returned", !.unlinks = @ + 1,
                                  !.unlinkFailed = TRUE]
       ELSE res' = [res EXCEPT !.pc = "returned"]
    /\ UNCHANGED <<blob, stores, now, cacheLog, up, ask, cite>>

NextNote ==
    \/ NoteCall
    \/ NoteWrite
    \/ NoteStat
    \/ UpEnsure
    \/ UpUploadFile
    \/ UpPoll
    \/ UpComplete
    \/ UpUpsert
    \/ NoteUploaded
    \/ NoteFinally

SpecNote == InitNote /\ [][NextNote]_vars

\* A blank note is answered with no file written and no remote call made.
BlankNoteRejected ==
    res.result = "no content"
       => /\ res.pc = "returned"
          /\ res.writes = 0 /\ ~res.fileExists /\ res.unlinks = 0
          /\ up = UpIdle

\* C21 (as stated): when the tool returns after writeFile resolved, the
\* temporary file is gone, whether the upload succeeded or failed; a blank
\* note is rejected with no file written and no remote call made.
C21_TempFileDeleted ==
    /\ res.pc = "returned" /\ res.written => ~res.fileExists
    /\ BlankNoteRejected

\* C21 (amended): when the tool returns after writeFile resolved, unlink has
\* been called once on the temporary file, after the upload settled, and
\* the file is gone unless that unlink failed; a blank note is rejected with
\* no file written and no remote call made.
C21_TempFileUnlinked ==
    /\ res.pc = "returned" /\ res.written
         => /\ res.unlinks = 1
            /\ ~res.unlinkFailed => ~res.fileExists
    /\ res.unlinks > 0 => up.pc \in {"idle", "done", "failed"}
    /\ BlankNoteRejected

\* The upload failed, the file was unlinked and the tool returned the error.
C21_Witness ==
    /\ res.pc = "returned"
    /\ res.written
    /\ res.result = "error"
    /\ up.pc = "failed"
    /\ up.uploads = 1
    /\ res.unlinks = 1
    /\ ~res.fileExists

-----------------------------------------------------------------------------
(* hooks/useFileUpload.ts: the upload hook, one await at a time.  A state  *)
(* set by the hook is the state the next call sees; a call of uploadFiles  *)
(* keeps the files and the signature of the render it was created in; its  *)
(* upload is the batch upload above.                                       *)

MaxSelections == 2  \* selection changes of the file picker

\* The paths the picker can hand over: a file within the size limit, one a
\* byte over it, and a path readFilesMetadata cannot read.
Paths == {"a.pdf", "big.pdf", "gone"}

PathRank(path) == CASE path = "a.pdf" -> 1 [] path = "big.pdf" -> 2 [] OTHER -> 3

\* The selections the picker hands over: none, one file, two files in
\* either order, a file with a path that cannot be read.
Selections ==
    {<<>>, <<"a.pdf">>, <<"big.pdf">>, <<"a.pdf", "big.pdf">>,
     <<"big.pdf", "a.pdf">>, <<"gone", "a.pdf">>}

\* [...paths].sort().join("|"): the paths in sorted order.
signature(paths) ==
    IF Len(paths) = 2 /\ PathRank(paths[1]) > PathRank(paths[2])
    THEN <<paths[2], paths[1]>>
    ELSE paths

\* readFilesMetadata(paths): one record per path that can be read, in the
\* order of paths.
RECURSIVE readFilesMetadata(_)
readFilesMetadata(paths) ==
    IF paths = <<>> THEN <<>>
    ELSE IF Head(paths) = "gone" THEN readFilesMetadata(Tail(paths))
    ELSE <<[name |-> <<Head(paths)>>,
            size |-> IF Head(paths) = "big.pdf" THEN MAX_FILE_SIZE_BYTES + 1 ELSE DocSize]>>
         \o readFilesMetadata(Tail(paths))

\* The call of uploadFiles: where it stands, its argument, the files and
\* the signature of its render, what it passed to uploadFilesToLibrary, and
\* whether a metadata read was in flight when it was called.
NoSubmit ==
    [pc |-> "idle", paths |-> <<>>, files |-> <<>>, lastSelectionSignature |-> <<>>,
     passed |-> None, racing |-> FALSE, error |-> "none"]

\* The hook: its states, its ref, the metadata reads in flight (each with
\* the number of its selection), the value the picker holds, the read that
\* set files last (exact: its paths were those of the selection made last,
\* or it had none and reset had run; same: they had the same signature),
\* and whether reset ran after the last selection.
InitSelect ==
    /\ blob = NoItem
    /\ stores = <<>>
    /\ now = 1
    /\ cacheLog = Logged("none", blob, Undefined, FALSE, Undefined)
    /\ res = [files |-> <<>>, lastSelectionSignature |-> <<>>,
              lastSelectionRef |-> <<>>, isUploading |-> FALSE,
              reads |-> {}, selections |-> 0, picked |-> <<>>,
              wrote |-> [n |-> 0, paths |-> <<>>, exact |-> TRUE, same |-> TRUE],
              wasReset |-> FALSE, submit |-> NoSubmit]
    /\ up = UpIdle
    /\ ask = IdleAsk
    /\ cite = IdleCite

\* (for comparison) a read that sets files whatever the ref holds.
isLatestSelectionAlways(ref, sig) == TRUE

\* if (lastSelectionRef.current === signature)
isLatestSelection(ref, sig) == ref = sig

\* reset(): setFiles([]); setLastSelectionSignature(""); ref = "".
resetHook(h) ==
    [h EXCEPT !.files = <<>>, !.lastSelectionSignature = <<>>,
              !.lastSelectionRef = <<>>, !.wasReset = TRUE,
              !.wrote = [n |-> 0, paths |-> <<>>, exact |-> TRUE, same |-> TRUE]]

\* handleSelectionChange(selectedPaths) up to its await.
SelChange ==
    /\ res.selections < MaxSelections
    /\ \E paths \in Selections :
          res' = [res EXCEPT
                    !.lastSelectionSignature = signature(paths),
                    !.lastSelectionRef = signature(paths),
                    !.selections = @ + 1,
                    !.picked = paths,
                    !.wasReset = FALSE,
                    !.reads = @ \cup {[n |-> res.selections + 1, paths |-> paths]}]
    /\ UNCHANGED <<blob, stores, now, cacheLog, up, ask, cite>>

\* await readFilesMetadata(paths) settles; files is set when the ref still
\* holds the signature of the call.
SelRead ==
    /\ \E r \in res.reads :
          LET expected == IF res.wasReset THEN <<>> ELSE res.picked IN
          IF isLatestSelection(res.lastSelectionRef, signature(r.paths))
          THEN res' = [res EXCEPT
                         !.reads = @ \ {r},
                         !.files = readFilesMetadata(r.paths),
                         !.wrote = [n |-> r.n, paths |-> r.paths,
                                    exact |-> r.paths = expected,
                                    same |-> signature(r.paths) = signature(expected)]]
          ELSE res' = [res EXCEPT !.reads = @ \ {r}]
    /\ UNCHANGED <<blob, stores, now, cacheLog, up, ask, cite>>

\* reset(), called by the command.
SelReset ==
    /\ res' = resetHook(res)
    /\ UNCHANGED <<blob, stores, now, cacheLog, up, ask, cite>>

\* uploadFiles(paths), handed the value of the picker, up to its await of
\* showToast.
SubmitCall ==
    /\ res.submit.pc = "idle"
    /\ res' = [res EXCEPT
                 !.submit = [NoSubmit EXCEPT
                    !.pc = "toast", !.paths = res.picked,
                    !.files = res.files,
                    !.lastSelectionSignature = res.lastSelectionSignature,
                    !.racing = res.reads # {}]]
    /\ UNCHANGED <<blob, stores, now, cacheLog, up, ask, cite>>

\* The validation of selectedFiles and, when it passes, uploadFilesToLibrary
\* up to its first await.
submitFiles(h, selectedFiles) ==
    IF Len(selectedFiles) = 0
    THEN [res |-> [h EXCEPT !.submit.pc = "done", !.submit.error = "no file",
                            !.isUploading = FALSE],
          up |-> up]
    ELSE IF findOversizedFile(selectedFiles, MAX_FILE_SIZE_BYTES) # None
    THEN [res |-> [h EXCEPT !.submit.pc = "done", !.submit.error = "too large",
                            !.isUploading = FALSE],
          up |-> up]
    ELSE [res |-> [h EXCEPT !.submit.pc = "upload",
                            !.submit.passed = Some(selectedFiles)],
          up |-> [up EXCEPT !.files = selectedFiles,
                            !.before = getDocuments(blob).value,
                            !.pc = "ensure"]]

\* The toast is up: setIsUploading(true); the files of the render are used
\* when there are some and the signature of paths is the one of the render,
\* otherwise the metadata is read.
SubmitToast ==
    /\ res.submit.pc = "toast"
    /\ LET h == [res EXCEPT !.isUploading = TRUE]
           s == res.submit
       IN  IF Len(s.files) = 0 \/ signature(s.paths) # s.lastSelectionSignature
           THEN /\ res' = [h EXCEPT !.submit.pc = "read"]
                /\ up' = up
           ELSE LET f == submitFiles(h, s.files) IN
                /\ res' = f.res
                /\ up' = f.up
    /\ UNCHANGED <<blob, stores, now, cacheLog, ask, cite>>

\* selectedFiles = await readFilesMetadata(paths) settles.
SubmitRead ==
    /\ res.submit.pc = "read"
    /\ LET f == submitFiles(res, readFilesMetadata(res.submit.paths)) IN
       /\ res' = f.res
       /\ up' = f.up
    /\ UNCHANGED <<blob, stores, now, cacheLog, ask, cite>>

\* await uploadFilesToLibrary(...) settles: reset() on success, the error
\* toast otherwise; finally setIsUploading(false).
SubmitSettle ==
    /\ res.submit.pc = "upload"
    /\ up.pc \in {"done", "failed"}
    /\ res' = IF up.pc = "done"
              THEN [resetHook(res) EXCEPT !.submit.pc = "done", !.isUploading = FALSE]
              ELSE [res EXCEPT !.submit.pc = "done", !.submit.error = "upload",
                               !.isUploading = FALSE]
    /\ UNCHANGED <<blob, stores, now, cacheLog, up, ask, cite>>

NextSelect ==
    \/ SelChange
    \/ SelRead
    \/ SelReset
    \/ SubmitCall
    \/ SubmitToast
    \/ SubmitRead
    \/ UpEnsure
    \/ UpUploadFile
    \/ UpPoll
    \/ UpComplete
    \/ UpUpsert
    \/ SubmitSettle

SpecSelect == InitSelect /\ [][NextSelect]_vars

\* C26: the files uploadFiles(paths) passes to uploadFilesToLibrary are the
\* readable files named by paths, whatever selection changes and metadata
\* reads surround the call.
C26_SubmittedFilesUploaded ==
    res.submit.passed # None
       => Range(res.submit.passed[1]) = Range(readFilesMetadata(res.submit.paths))

\* The same, for a call of uploadFiles made with no metadata read in flight.
SubmittedFilesWhenNoReadInFlight ==
    res.submit.passed # None /\ ~res.submit.racing
       => Range(res.submit.passed[1]) = Range(readFilesMetadata(res.submit.paths))

\* big.pdf was submitted while its metadata read was in flight, and a.pdf,
\* the selection before it, was handed to uploadFilesToLibrary.
C26_EarlierSelectionUploaded ==
    /\ res.submit.paths = <<"big.pdf">>
    /\ res.submit.racing
    /\ res.submit.passed = Some(readFilesMetadata(<<"a.pdf">>))

\* What the files state is to hold once every read has settled: the
\* metadata of the selection made last, or nothing after reset.
ExpectedSelection == IF res.wasReset THEN <<>> ELSE res.picked

C27_EarlierOrderKept ==
    /\ res.reads = {}
    /\ ~res.wasReset
    /\ ~res.wrote.exact
    /\ res.wrote.n = 1
    /\ res.files # readFilesMetadata(res.picked)

-----------------------------------------------------------------------------
(* hooks/useAskQuestion.ts: the ask hook, one await at a time.  A state    *)
(* set by the hook is the state the next call of ask or clearHistory sees; *)
(* a call of ask keeps the conversation it was created with.               *)

MaxQuestions == 2   \* questions the hook is asked

NoAnswerText == <<"_The model returned no answer._">>

\* An entry of the list, newest first.
PendingEntry(id, question) ==
    [id |-> id, question |-> question, status |-> "pending",
     answer |-> None, error |-> "none"]

EntryIds(entries) == {entries[k].id : k \in 1..Len(entries)}

EntryOf(entries, id) == entries[CHOOSE k \in 1..Len(entries) : entries[k].id = id]

\* (for comparison) every settled entry shown as ready.
settleEntryReady(entry, r) ==
    [entry EXCEPT !.status = "ready",
                  !.answer = IF r.answer = None \/ r.answer = Some(<<>>)
                             THEN Some(NoAnswerText) ELSE r.answer]

\* The entry of the question once runAskFlow has settled with r: ready with
\* the answer (answer || "_The model returned no answer._"), or error with
\* the message of what was thrown.
settleEntry(entry, r) ==
    IF r.threw
    THEN [entry EXCEPT !.status = "error", !.error = r.error]
    ELSE [entry EXCEPT !.status = "ready",
                       !.answer = IF r.answer = None \/ r.answer = Some(<<>>)
                                  THEN Some(NoAnswerText) ELSE r.answer]

\* setEntries((prev) => prev.map((entry) => entry.id === entryId ? ... : entry))
settleEntries(entries, entryId, r) ==
    [k \in 1..Len(entries) |->
        IF entries[k].id = entryId THEN settleEntry(entries[k], r) ELSE entries[k]]

\* The call of ask in flight: where it stands, the entry it made, its
\* question, the conversation of the render it was created in, the history
\* it built; afterClear tells that no question was accepted between the last
\* clearHistory and this one, cleared that clearHistory ran since it started.
NoCall ==
    [pc |-> "idle", entryId |-> 0, question |-> <<>>, conversation |-> <<>>,
     history |-> <<>>, afterClear |-> FALSE, cleared |-> FALSE]

HookSettled(op, r, entryId, cleared) ==
    [op |-> op, threw |-> r.threw, error |-> r.error, entryId |-> entryId,
     cleared |-> cleared, generates |-> r.generates, resolves |-> r.resolves]

InitHook ==
    /\ blob = NoItem
    /\ stores = <<>>
    /\ now = 1
    /\ cacheLog = Logged("none", blob, Undefined, FALSE, Undefined)
    /\ res = IdleRes
    /\ up = IdleUp
    /\ cite = IdleCite
    /\ ask = [entries |-> <<>>, conversation |-> <<>>, isLoading |-> FALSE,
              call |-> NoCall, accepted |-> 0, ignored |-> "no", fresh |-> FALSE,
              did |-> "none",
              last |-> HookSettled("none", NotCalled(blob, stores), 0, FALSE)]

\* (for comparison) only a blank question is turned away.
returnsEarlyWhenBlank(trimmedQuestion, isLoading) == trimmedQuestion = <<>>

\* if (!trimmedQuestion || isLoading) return;
returnsEarly(trimmedQuestion, isLoading) == trimmedQuestion = <<>> \/ isLoading

\* ask(question) up to its first await: a blank question or a question
\* during loading is ignored (ignored tells which); otherwise the pending
\* entry is put first, isLoading is set and the toast is requested.
HookAsk ==
    /\ ask.accepted < MaxQuestions
    /\ \E question \in Questions(None) :
          LET trimmedQuestion == trim(question) IN
          IF returnsEarly(trimmedQuestion, ask.isLoading)
          THEN ask' = [ask EXCEPT
                         !.ignored = IF trimmedQuestion = <<>> THEN "blank" ELSE "loading",
                         !.did = "ask"]
          ELSE ask' = [ask EXCEPT
                         !.ignored = "no",
                         !.did = "ask",
                         !.accepted = @ + 1,
                         !.fresh = FALSE,
                         !.entries = <<PendingEntry(ask.accepted + 1, trimmedQuestion)>> \o @,
                         !.isLoading = TRUE,
                         !.call = [pc |-> "toast", entryId |-> ask.accepted + 1,
                                   question |-> trimmedQuestion,
                                   conversation |-> ask.conversation,
                                   history |-> <<>>,
                                   afterClear |-> ask.fresh, cleared |-> FALSE]]
    /\ UNCHANGED <<blob, stores, now, cacheLog, res, up, cite>>

\* await showToast(...) settles: the toast is up, the try block is entered
\* and the history is built and sent; or showToast rejects, and with it the
\* call of ask.
HookToast ==
    /\ ask.call.pc = "toast"
    /\ \/ ask' = [ask EXCEPT
                    !.did = "showToast",
                    !.call.pc = "flow",
                    !.call.history =
                        buildAskHistory(ask.call.question, ask.call.conversation).value]
       \/ ask' = [ask EXCEPT !.did = "showToast", !.call.pc = "rejected"]
    /\ UNCHANGED <<blob, stores, now, cacheLog, res, up, cite>>

\* await runAskFlow(...) settles: on a result the conversation is set and
\* the entry made ready, on a throw the entry is made error; either way
\* isLoading is set back.
HookFlow ==
    /\ ask.call.pc = "flow"
    /\ \E e \in StoreOutcomes(blob, stores) :
       \E generateOk \in BOOLEAN :
       \E response \in IF generateOk /\ ~e.threw
                       THEN Responses(None)
                       ELSE {[text |-> None, content |-> None]} :
          LET options == [question |-> ask.call.question,
                          conversation |-> ask.call.conversation,
                          history |-> Some(ask.call.history),
                          documents |-> Some(<<>>),
                          maxContextMessages |-> Some(DEFAULT_MAX_CONTEXT_MESSAGES)]
              r == runAskFlow(options, e, generateOk, response, blob, stores)
          IN  /\ blob' = r.blob
              /\ stores' = r.stores
              /\ ask' = [ask EXCEPT
                           !.conversation = IF r.threw THEN @ ELSE r.conversation,
                           !.entries = settleEntries(@, ask.call.entryId, r),
                           !.isLoading = FALSE,
                           !.did = "runAskFlow",
                           !.call = NoCall,
                           !.last = HookSettled("ask", r, ask.call.entryId,
                                                ask.call.cleared)]
    /\ UNCHANGED <<now, cacheLog, res, up, cite>>

\* setConversation([])
clearedConversation(conversation) == <<>>

\* clearHistory(): setEntries([]); setConversation([]).
HookClearHistory ==
    /\ ask' = [ask EXCEPT !.entries = <<>>,
                          !.conversation = clearedConversation(@),
                          !.fresh = TRUE,
                          !.did = "clearHistory",
                          !.call.cleared = (ask.call.pc # "idle")]
    /\ UNCHANGED <<blob, stores, now, cacheLog, res, up, cite>>

NextHook ==
    \/ HookAsk
    \/ HookToast
    \/ HookFlow
    \/ HookClearHistory

\* Every await of the hook settles.
SpecHook ==
    /\ InitHook
    /\ [][NextHook]_vars
    /\ WF_vars(HookToast)
    /\ WF_vars(HookFlow)

\* C16: when generate fails during an ask of the hook, generate was invoked
\* once and not again, its failure is the error of the ask, the step that
\* settles the ask leaves the conversation as it is and sets isLoading
\* back, and the entry of the question (still listed unless clearHistory
\* ran meanwhile) becomes error with that failure.
C16_GenerateFailurePropagated ==
    /\ [](ask.last.generates <= 1)
    /\ [](ask.last.error = "generate" => ask.last.threw /\ ask.last.generates = 1)
    /\ [][ask.call.pc = "flow" /\ ask'.call.pc = "idle" /\ ask'.last.error = "generate"
            => /\ ask'.conversation = ask.conversation
               /\ ~ask'.isLoading
               /\ ask.call.entryId \in EntryIds(ask.entries)
                    => /\ EntryOf(ask'.entries, ask.call.entryId).status = "error"
                       /\ EntryOf(ask'.entries, ask.call.entryId).error = "generate"
                       /\ EntryOf(ask'.entries, ask.call.entryId).answer = None
               /\ ~ask.call.cleared => ask.call.entryId \in EntryIds(ask.entries)]_vars

C16_Witness ==
    /\ ask.last.op = "ask"
    /\ ask.last.error = "generate"
    /\ ~ask.last.cleared
    /\ ask.conversation # <<>>
    /\ ask.last.entryId \in EntryIds(ask.entries)
    /\ EntryOf(ask.entries, ask.last.entryId).status = "error"

Pending(id) ==
    id \in EntryIds(ask.entries) /\ EntryOf(ask.entries, id).status = "pending"

\* The entry is ready or error, or clearHistory took it off the list.
Settled(id) ==
    id \in EntryIds(ask.entries) => EntryOf(ask.entries, id).status \in {"ready", "error"}

\* One entry is made per accepted question, and none otherwise.
OneEntryPerQuestion ==
    /\ [](ask.accepted >= Len(ask.entries))
    /\ [][ask'.accepted = ask.accepted + 1
            => /\ Len(ask'.entries) = Len(ask.entries) + 1
               /\ Head(ask'.entries).status = "pending"
               /\ Head(ask'.entries).id \notin EntryIds(ask.entries)
               /\ Tail(ask'.entries) = ask.entries]_vars
    /\ [][ask'.accepted = ask.accepted => Len(ask'.entries) <= Len(ask.entries)]_vars

\* An entry that is ready or error is not pending again.
NeverPendingAgain ==
    [][\A id \in EntryIds(ask.entries) \cap EntryIds(ask'.entries) :
          EntryOf(ask.entries, id).status # "pending"
            => EntryOf(ask'.entries, id).status # "pending"]_vars

\* C19: with every await of the hook settling, the entry of an accepted
\* question is eventually ready or error (or cleared) with isLoading back to
\* false; one entry is made per accepted question and an entry does not
\* return to pending.
C19_AcceptedQuestionsSettle ==
    /\ \A id \in 1..MaxQuestions :
          [](Pending(id) => <>(Settled(id) /\ ~Pending(id) /\ ~ask.isLoading))
    /\ OneEntryPerQuestion
    /\ NeverPendingAgain

\* The same, for the questions whose toast came up.
SettlesOnceToastIsUp ==
    \A id \in 1..MaxQuestions :
       [](Pending(id) /\ ask.call.pc = "flow"
            => <>(Settled(id) /\ ~Pending(id) /\ ~ask.isLoading))

\* showToast rejected: the entry stays pending and isLoading stays true.
C19_ToastRejected ==
    /\ ask.call.pc = "rejected"
    /\ ask.isLoading
    /\ Pending(ask.call.entryId)

PendingEntries == {k \in 1..Len(ask.entries) : ask.entries[k].status = "pending"}

OnlyTheQuestion(call) == call.history = <<UserTurn(call.question)>>

\* C20: clearHistory leaves the entry list and the conversation empty, and
\* the next question accepted after it is sent with a history that holds
\* that question alone, also when an ask was in flight at the time of
\* clearHistory and settled after it.
C20_CleanSlateAfterClear ==
    /\ ask.did = "clearHistory" => ask.entries = <<>> /\ ask.conversation = <<>>
    /\ ask.call.afterClear /\ ask.call.pc = "flow" => OnlyTheQuestion(ask.call)

\* The same, when the ask settled last had not seen a clearHistory while in
\* flight.
CleanSlateWhenNothingInFlight ==
    /\ ask.did = "clearHistory" => ask.entries = <<>> /\ ask.conversation = <<>>
    /\ ask.call.afterClear /\ ask.call.pc = "flow" /\ ~ask.last.cleared
         => OnlyTheQuestion(ask.call)

\* A question asked first after clearHistory goes out with the turns of the
\* ask that settled after clearHistory.
C20_StaleHistorySent ==
    /\ ask.call.afterClear
    /\ ask.call.pc = "flow"
    /\ ask.last.cleared
    /\ Len(ask.call.history) = 3

-----------------------------------------------------------------------------
(* lib/ask.ts: extractCitations.  A name or title is a sequence of path    *)
(* segments (a plain string is one segment, the empty string <<"">>).      *)

MaxChunks == 3      \* longest groundingChunks list

\* The values randomUUID() returns, one per call: all different, and none a
\* document id or a URI.
UUIDs == <<"uuid-1", "uuid-2", "uuid-3", "uuid-4", "uuid-5", "uuid-6", "uuid-7", "uuid-8">>

\* Boolean(s) for an optional string.
TruthyText(s) == s # None /\ s # Some("")

\* A grounding chunk: whether it has a retrievedContext, and the context's
\* documentName, uri, title, ragChunk.text and text, each optional.
Chunk(documentName, uri, title, ragText, text) ==
    [retrievedContext |-> TRUE, documentName |-> documentName, uri |-> uri,
     title |-> title, ragText |-> ragText, text |-> text]

NoContextChunk ==
    [retrievedContext |-> FALSE, documentName |-> None, uri |-> None,
     title |-> None, ragText |-> None, text |-> None]

\* context.documentName ? context.documentName.split("/").pop() : undefined
chunkDocumentId(chunk) ==
    IF chunk.documentName # None /\ chunk.documentName # Some(EmptyString)
    THEN Some(Last(chunk.documentName[1]))
    ELSE None

\* documentId ?? context.uri ?? randomUUID(), uuid being what randomUUID
\* would return here.
chunkBaseId(chunk, uuid) ==
    IF chunkDocumentId(chunk) # None THEN chunkDocumentId(chunk)[1]
    ELSE IF chunk.uri # None THEN chunk.uri[1]
    ELSE uuid

\* context.ragChunk?.text ?? context.text
chunkSnippet(chunk) ==
    IF chunk.ragText # None THEN chunk.ragText ELSE chunk.text

\* docMap.get(documentId) for docMap = new Map(documents.map(doc => [doc.id, doc])).
docMapGet(documents, id) ==
    LET hits == {k \in 1..Len(documents) : documents[k].id = id} IN
    IF hits = {} THEN None
    ELSE Some(documents[CHOOSE k \in hits : \A l \in hits : l <= k])

\* storedDoc?.name ?? context.title ?? documentId ?? "Document"
citationName(chunk, documents) ==
    LET documentId == chunkDocumentId(chunk)
        storedDoc == IF documentId # None /\ documentId # Some("")
                     THEN docMapGet(documents, documentId[1])
                     ELSE None
    IN  IF storedDoc # None THEN storedDoc[1].name
        ELSE IF chunk.title # None THEN chunk.title[1]
        ELSE IF documentId # None THEN <<documentId[1]>>
        ELSE <<"Document">>

\* byDocument.get(baseId): the position of the entry, 0 when there is none.
mapIndex(byDocument, baseId) ==
    IF \E k \in 1..Len(byDocument) : byDocument[k].id = baseId
    THEN CHOOSE k \in 1..Len(byDocument) : byDocument[k].id = baseId
    ELSE 0

\* (for comparison) the loop body without the snippet backfill.
citeChunkKeepingFirst(byDocument, chunk, documents, uuid) ==
    IF ~chunk.retrievedContext THEN byDocument
    ELSE LET baseId == chunkBaseId(chunk, uuid)
             existing == mapIndex(byDocument, baseId)
         IN  IF existing = 0
             THEN Append(byDocument,
                         [id |-> baseId,
                          documentId |-> chunkDocumentId(chunk),
                          documentName |-> citationName(chunk, documents),
                          snippet |-> chunkSnippet(chunk),
                          uri |-> chunk.uri])
             ELSE byDocument

\* The body of the loop over groundingChunks, for one chunk.
citeChunk(byDocument, chunk, documents, uuid) ==
    IF ~chunk.retrievedContext THEN byDocument
    ELSE LET baseId == chunkBaseId(chunk, uuid)
             existing == mapIndex(byDocument, baseId)
             snippet == chunkSnippet(chunk)
         IN  IF existing = 0
             THEN Append(byDocument,
                         [id |-> baseId,
                          documentId |-> chunkDocumentId(chunk),
                          documentName |-> citationName(chunk, documents),
                          snippet |-> snippet,
                          uri |-> chunk.uri])
             ELSE IF ~TruthyText(byDocument[existing].snippet) /\ TruthyText(snippet)
             THEN [byDocument EXCEPT ![existing].snippet = snippet]
             ELSE byDocument

RECURSIVE citeFrom(_, _, _, _)
citeFrom(byDocument, chunks, i, documents) ==
    IF i > Len(chunks) THEN byDocument
    ELSE citeFrom(citeChunk(byDocument, chunks[i], documents, UUIDs[i]),
                  chunks, i + 1, documents)

\* extractCitations(metadata, documents); metadata is None when undefined,
\* its groundingChunks None when undefined.
extractCitations(metadata, documents) ==
    IF metadata = None THEN <<>>
    ELSE IF metadata[1].groundingChunks = None THEN <<>>
    ELSE IF Len(metadata[1].groundingChunks[1]) = 0 THEN <<>>
    ELSE citeFrom(<<>>, metadata[1].groundingChunks[1], 1, documents)

\* The chunks the model can ground an answer on.
ContextKeys ==
    {[documentName |-> Some(DocumentName("s1", "d1")), uri |-> None, title |-> None],
     [documentName |-> Some(DocumentName("s1", "d2")), uri |-> Some("u1"), title |-> Some(<<"T">>)],
     [documentName |-> Some(EmptyString), uri |-> Some("u1"), title |-> None],
     [documentName |-> None, uri |-> Some("d1"), title |-> None],
     [documentName |-> None, uri |-> None, title |-> None]}

SnippetSources ==
    {[ragText |-> None, text |-> None],
     [ragText |-> Some(""), text |-> Some("t1")],
     [ragText |-> None, text |-> Some("t1")],
     [ragText |-> Some("r1"), text |-> Some("t2")]}

GroundingChunks ==
    {NoContextChunk} \cup
    {Chunk(k.documentName, k.uri, k.title, sn.ragText, sn.text) :
        k \in ContextKeys, sn \in SnippetSources}

GroundingMetadata ==
    {None, Some([groundingChunks |-> None])} \cup
    {Some([groundingChunks |-> Some(chunks)]) :
        chunks \in SeqsUpTo(GroundingChunks, MaxChunks)}

InitCite ==
    /\ blob = NoItem
    /\ stores = <<>>
    /\ now = 1
    /\ cacheLog = Logged("none", blob, Undefined, FALSE, Undefined)
    /\ res = IdleRes
    /\ up = IdleUp
    /\ ask = IdleAsk
    /\ \E metadata \in GroundingMetadata :
          cite = [metadata |-> metadata, documents |-> <<CachedDocument>>,
                  called |-> FALSE, citations |-> <<>>]

\* extractCitations(candidate?.groundingMetadata, documents), as askLibrary
\* calls it.
CiteExtract ==
    /\ ~cite.called
    /\ cite' = [cite EXCEPT !.called = TRUE,
                            !.citations = extractCitations(cite.metadata, cite.documents)]
    /\ UNCHANGED <<blob, stores, now, cacheLog, res, up, ask>>

NextCite ==
    \/ CiteExtract

SpecCite == InitCite /\ [][NextCite]_vars

\* The chunks of the call, <<>> when the metadata has none.
citedChunks ==
    IF cite.metadata = None THEN <<>>
    ELSE IF cite.metadata[1].groundingChunks = None THEN <<>>
    ELSE cite.metadata[1].groundingChunks[1]

\* The positions of the chunks that have a retrieved context, and the dedup
\* key of each: its document id, else its URI, else a key of its own.
Retrieved == {i \in 1..Len(citedChunks) : citedChunks[i].retrievedContext}

KeyOf(i) == chunkBaseId(citedChunks[i], UUIDs[i])

FirstOf(key) ==
    CHOOSE i \in Retrieved : KeyOf(i) = key /\ \A j \in Retrieved : KeyOf(j) = key => i <= j

WithSnippet(key) ==
    {i \in Retrieved : KeyOf(i) = key /\ TruthyText(chunkSnippet(citedChunks[i]))}

\* C9: extractCitations returns one citation per distinct dedup key, in order
\* of first appearance, and a citation's snippet is the first non-empty
\* snippet among the chunks with its key (the first chunk's when none of them
\* has one).
C9_OneCitationPerKey ==
    cite.called =>
        LET out == cite.citations IN
        /\ Len(out) = Cardinality({KeyOf(i) : i \in Retrieved})
        /\ \A p \in 1..Len(out) : \E i \in Retrieved : out[p].id = KeyOf(i)
        /\ \A p, q \in 1..Len(out) :
              p < q => FirstOf(out[p].id) < FirstOf(out[q].id)
        /\ \A p \in 1..Len(out) :
              LET having == WithSnippet(out[p].id) IN
              IF having = {}
              THEN out[p].snippet = chunkSnippet(citedChunks[FirstOf(out[p].id)])
              ELSE out[p].snippet =
                      chunkSnippet(citedChunks[CHOOSE i \in having :
                                                  \A j \in having : i <= j])

C9_Witness ==
    /\ cite.called
    /\ Len(citedChunks) = 2
    /\ chunkDocumentId(citedChunks[1]) = Some("d1")
    /\ chunkDocumentId(citedChunks[2]) = Some("d1")
    /\ ~TruthyText(chunkSnippet(citedChunks[1]))
    /\ chunkSnippet(citedChunks[2]) = Some("r1")
    /\ Len(cite.citations) = 1
    /\ cite.citations[1].snippet = Some("r1")

=============================================================================
